---- MODULE Spec2Model ----
(***************************************************************************)
(* A model of the observable core of skooma-js (src/observable.js).        *)
(*                                                                         *)
(* The heap holds one ObservableObject, Par, with the properties Props,    *)
(* and one ObservableValue, Kid, which can be stored under a property of   *)
(* Par and is then adopted by it.  JavaScript runs one macrotask ("turn")  *)
(* of user code at a time and then drains the microtask queue, in FIFO     *)
(* order; the deferred flush of an Observable is one such microtask.       *)
(* Listeners are user code: the model registers subscribers (subscribe),   *)
(* validators (a 'synchronous' listener that cancels the writes of one     *)
(* value) and one-shot change listeners that write back to Par.            *)
(*                                                                         *)
(* An operation is one action, with every listener it runs: the operators  *)
(* below transform a record of the heap (St) the way the code does, nested *)
(* dispatches included.  The histories (last, enq, events, calls, start)   *)
(* record what an operation did, for the properties at the end; they are   *)
(* reset when a turn begins.                                               *)
(***************************************************************************)
EXTENDS Integers, Sequences, FiniteSets, TLC

\* ---------------------------------------------------------------- bounds

\* user operations in one behaviour
MaxOps == 3
\* user operations in one behaviour of user code that only writes
MaxWrites == 4

\* ---------------------------------------------------------------- values

Par == "obj"
Kid == "ov"
Obs == {Par, Kid}
Props == {"p1", "p2"}
Undefined == "undefined"
\* plain (non-Observable) values
Vals == {"x", "y"}
\* what a property of Par can hold
PropVals == Vals \cup {Kid}
\* the targets passed to the ObservableObject constructor
Targets == {[p \in Props |-> "x"], [p \in Props |-> IF p = "p1" THEN Kid ELSE "x"]}
\* the {synchronous} option of the two constructors
SyncChoices == [Obs -> BOOLEAN]
\* the value a validator rejects
BadVals == {"y"}
\* the property a one-shot change listener writes
OnceProps == {"p1"}

IsObservable(v) == v = Kid

\* the ProxiedObservableValue obj.proxy(ProjProp), and the property it projects
Proj == "px"
ProjProp == "p1"
\* the object literal the projection's listener passes to enqueue, as a property key
ObjectKey == "[object Object]"

\* the sources a and b of a composition, and c = compose(Combine)(a, b)
SrcA == "a"
SrcB == "b"
Cmp == "c"
Sources == {SrcA, SrcB}
\* the numbers the sources hold, as the strings of 1 to 4
Digit == <<"1", "2", "3", "4">>
SrcVals == {"1", "2"}
\* the microtask scheduleUpdate queues
UpdateTask == "c.update"

\* the ObservableElement over a DOM target, and the microtask its update queues
Elt == "el"
ElemTask == "el.flush"
\* what the extractor reads from the target; "" is the falsy one
ElemVals == {"", "x", "y"}
\* the {get} option: none (target => target.value), or a function that reads
\* the element it closes over and ignores its argument
Getters == {"default", "closure"}
\* #changedValue = false
False == "false"

\* the values of an observable rendered as a reactive child: a string, the
\* number 7, and two Elements
Elements == {"E1", "E2"}
Seven == "#7"
DomVals == {"x", Seven} \cup Elements

\* the attributes an observable is bound to: a plain one, and the value of an
\* input, which DomHtmlRenderer.specialAttributes handles
Attrs == {"title", "value"}
Absent == "#absent"
AttrVals == Vals \cup {False}

\* what the transform passed to bind returns: one of three nodes, or nothing
BindNodes == {"N1", "N2", "N3"}
BindResults == BindNodes \cup {Undefined}

\* three StoredStates: s1 and s2 share a storage area, s3 has its own; all
\* are made with {key: "k"}
Stored == <<"s1", "s2", "s3">>
Area(i) == IF i = "s3" THEN "other" ELSE "local"
Areas == {"local", "other"}
ValueKey(i) == "k"
StoredProps == {"value", "p2"}
StoredKeys == {"k", "p2"}
\* the values written, which JSON can encode: a string and NaN, which it
\* encodes as null
NaN == "#NaN"
Null == "#null"
StoredVals == {"x", NaN}

\* an instance of class Bare extends Observable {}, which defines no emit
Bare == "bare"
Classes == {"Observable", Bare}

VARIABLES
    sync,       \* Observable.#synchronous, per instance
    store,      \* ObservableObject: the target behind the values proxy
    value,      \* ObservableValue.#value
    queue,      \* Observable.#queue, per instance
    tasks,      \* the microtask queue: the Observables whose flush is pending
    listeners,  \* EventTarget listener lists, per instance, in order
    nested,     \* ObservableObject.#nested.get(Kid): property -> handler id, 0 for none
    phase,      \* "turn": user code runs; "drain": microtasks run
    budget,     \* the number of user operations the behaviour may make
    used,       \* the number of user operations so far
    last,       \* history: the latest user operation, with its result
    enq,        \* history: the enqueue calls since the turn began
    events,     \* history: the change events dispatched since the turn began
    calls,      \* history: the subscriber callbacks invoked since the turn began,
                \* each with the number of change events dispatched before it
    start,      \* history: store and value when the turn began
    cell,       \* ObservableValue.#value of the sources and of the composition
    updating,   \* ObservableComposition.#microtaskQueued
    field,      \* what the extractor reads from the ObservableElement's target
    tracked,    \* ObservableElement.#value
    changed,    \* ObservableElement.#changedValue
    getter,     \* ObservableElement.#getValue: which extractor was configured
    bareMade,   \* an instance of Bare has been constructed
    errors,     \* history: the exceptions thrown since the turn began
    place,      \* DOM: the node at the reactive child's place in its parent
    ref,        \* toReactiveElement: the node the closure's WeakRef holds
    newer,      \* Ref.#map: replaced node -> the node that replaced it
    texts,      \* DOM: the number of Text nodes created so far
    vetoes,     \* DOM: the nodes with a listener that cancels skooma:beforereplace
    domlog,     \* history: what handleChange did since the turn began, in order
    attr,       \* DOM: the attribute an observable is bound to, Absent when removed
    attached,   \* the event listeners setAttribute added to the element, each with its signal
    signals,    \* MultiAbortController: the AbortControllers aborted so far; names the current signal
    attributes, \* the custom element's attributes: name -> text, Absent for none
    mutations,  \* the MutationObserver's pending records: the attribute names, oldest first
    held,       \* Ref.#element of the Ref user code made, NoNode before
    got,        \* history: what the latest deref() returned
    installed,  \* bind: the closure's variable element, NoNode while undefined
    injected,   \* bind: the nodes that own a 'current' property
    shown,      \* DOM: the node at the bound element's place
    fwdCache,   \* State.#forwardCache: property -> the instance its WeakRef was made for, 0 for no entry
    live,       \* the ForwardState instances not yet garbage collected
    kept,       \* the ForwardState instances user code still references
    forwards,   \* the number of ForwardState instances constructed
    fwd,        \* history: the latest forward(p) call and the instance it returned
    returned,   \* history: every (property, instance) pair forward has returned
    storage,    \* the storage areas: key -> the JSON text stored, Absent for none
    sdefer,     \* StoredState: #options.defer ?? true, per instance
    squeue,     \* State.#queue, per instance
    stasks,     \* the microtasks State.emit queued, oldest first
    semits,     \* history: the State.emit calls since the turn began
    sevents,    \* history: the ChangeEvents the States dispatched since the turn began
    origin,     \* ComposedState's source States: #target.value, per source
    osync,      \* SimpleState.#synchronous of the source States
    oqueue,     \* SimpleState.#queue of the source States
    jobs,       \* the microtasks of the sources' emit and of scheduleUpdate, oldest first
    composite,  \* ComposedState: its value property
    microtaskQueued, \* ComposedState.#microtaskQueued
    wrote,      \* history: the sources whose value a write changed since the turn began
    unsubscribed \* history: the listener ids whose unsubscribe function has been called

vars == <<sync, store, value, queue, tasks, listeners, nested, phase, budget, used,
          last, enq, events, calls, start, cell, updating,
          field, tracked, changed, getter, bareMade, errors,
          place, ref, newer, texts, vetoes, domlog, attr, attached, signals,
          attributes, mutations, held, got,
          installed, injected, shown, fwdCache, live, kept, forwards, fwd, returned,
          storage, sdefer, squeue, stasks, semits, sevents,
          origin, osync, oqueue, jobs, composite, microtaskQueued, wrote,
          unsubscribed>>

\* the state no Observable and no listener writes
forwarding == <<fwdCache, live, kept, forwards, fwd, returned>>
stored == <<storage, sdefer, squeue, stasks, semits, sevents>>
composing == <<origin, osync, oqueue, jobs, composite, microtaskQueued, wrote>>
further == <<composing, unsubscribed>>
basics == <<held, got, installed, injected, shown, forwarding, stored>>
outside == <<basics, further>>

\* ------------------------------------------------------- change records

\* {property, from, to, mutation} as enqueue builds it
Change(p, from, to) ==
    [property |-> p, from |-> from, to |-> to, observable |-> FALSE, raw |-> Undefined]

\* an argument of emit that is no change record, seen through the
\* destructuring {property, from, to} of MultiChangeEvent.values
RawArg(v, obsFlag) ==
    [property |-> Undefined, from |-> Undefined, to |-> Undefined,
     observable |-> obsFlag, raw |-> v]

EmptyMap == [q \in {} |-> <<>>]

RECURSIVE ValuesMap(_, _)
ValuesMap(changes, values) ==
    IF changes = <<>> THEN values
    ELSE LET c == Head(changes)
             list == IF c.property \in DOMAIN values
                     THEN values[c.property] ELSE <<c.from>>
         IN ValuesMap(Tail(changes),
                      [q \in DOMAIN values \cup {c.property} |->
                          IF q = c.property THEN Append(list, c.to) ELSE values[q]])

EventValues(changes) == ValuesMap(changes, EmptyMap)

NetChangeMut(list) == TRUE
NetChange(list) == list[1] # list[Len(list)]

Final(changes) ==
    LET vs == EventValues(changes)
    IN [p \in {q \in DOMAIN vs : NetChange(vs[q])} |-> vs[p][Len(vs[p])]]

\* ------------------------------------------------------------ listeners

\* one registered event listener; id tells closures apart
Listener(id, type, kind, p, v) ==
    [id |-> id, type |-> type, kind |-> kind, prop |-> p, val |-> v]

Range(seq) == {seq[i] : i \in DOMAIN seq}

UsedIds(s) == {l.id : l \in UNION {Range(s.listeners[o]) : o \in DOMAIN s.listeners}}

FreshId(s) == CHOOSE n \in 1..(Cardinality(UsedIds(s)) + 1) :
                 /\ n \notin UsedIds(s)
                 /\ \A m \in 1..(n - 1) : m \in UsedIds(s)

AddListener(s, o, l) == [s EXCEPT !.listeners[o] = Append(@, l)]

RemoveListener(s, o, type, id) ==
    [s EXCEPT !.listeners[o] = SelectSeq(@, LAMBDA l : ~(l.type = type /\ l.id = id))]

\* the state the operations below transform
St == [store |-> store, value |-> value, queue |-> queue, tasks |-> tasks,
       listeners |-> listeners, nested |-> nested,
       enq |-> enq, events |-> events, calls |-> calls,
       cell |-> cell, updating |-> updating,
       field |-> field, tracked |-> tracked, changed |-> changed, getter |-> getter,
       errors |-> errors,
       place |-> place, ref |-> ref, newer |-> newer, texts |-> texts,
       vetoes |-> vetoes, domlog |-> domlog, attr |-> attr,
       attached |-> attached, signals |-> signals,
       attributes |-> attributes, mutations |-> mutations]

NoQueue == [defined |-> FALSE, items |-> <<>>]

\* --------------------------------------------------- dispatch and emit

RECURSIVE RunAll(_, _, _, _, _)
RECURSIVE RunRest(_, _, _, _, _)
RECURSIVE Emit(_, _, _, _, _)
RECURSIVE Enqueue(_, _, _, _, _)
RECURSIVE SetTrap(_, _, _)

\* the change listener subscribe installs
\* what code reads from instance o for property p: o.values[p], o.value
Reading(s, o, p) ==
    CASE o = Par -> IF p \in DOMAIN s.store THEN s.store[p] ELSE Undefined
      [] o = Kid -> s.value
      [] o = Elt -> s.tracked
      [] o \in DOMAIN s.cell -> s.cell[o]
      [] OTHER -> Undefined

SubscriberCall(s, o, l, ev) ==
    LET final == Final(ev.changes)
    IN IF l.prop \in DOMAIN final
       THEN [s EXCEPT !.calls = Append(@, [obs |-> o, id |-> l.id, prop |-> l.prop,
                                           arg |-> final[l.prop], phase |-> phase,
                                           at |-> "event", seen |-> Len(s.events),
                                           read |-> Reading(s, o, l.prop)])]
       ELSE s

\* the arguments the adoption handler passes to emit
BubbleArgs(p, o) ==
    <<RawArg(p, FALSE), RawArg(o, TRUE), RawArg(o, TRUE), RawArg("options", TRUE)>>

\* the combining function of the composition: (x, y) => x + y
NumOf(v) == CHOOSE n \in DOMAIN Digit : Digit[n] = v
Combine(x, y) == Digit[NumOf(x) + NumOf(y)]

\* the value setter of ObservableValue, on instance o
\* if (this.enqueue(...)) this.#value = value, e being what enqueue answered
CellAssign(e, o, v) ==
    [st |-> IF e.ok THEN [e.st EXCEPT !.cell[o] = v] ELSE e.st,
     res |-> IF e.ok THEN "true" ELSE "false"]

CellSetter(s, o, v) == CellAssign(Enqueue(s, o, "value", s.cell[o], v), o, v)

UpdateMut(s) ==
    LET v == Combine(s.cell[SrcA], s.cell[SrcB])
    IN IF v = s.cell[Cmp] THEN s
       ELSE Emit(CellSetter(s, Cmp, v).st, Cmp, <<Change("value", s.cell[Cmp], v)>>,
                 "update", Undefined)

\* ObservableComposition.update: the inherited setter, then emit
Update(s) ==
    LET v == Combine(s.cell[SrcA], s.cell[SrcB])
        change == Change("value", s.cell[Cmp], v)
    IN Emit(CellSetter(s, Cmp, v).st, Cmp, <<change>>, "update", Undefined)

ScheduleUpdateMut(s) ==
    IF sync[Cmp] THEN Update(s)
    ELSE [s EXCEPT !.tasks = Append(@, UpdateTask), !.updating = TRUE]

\* ObservableComposition.scheduleUpdate
ScheduleUpdate(s) ==
    IF sync[Cmp] THEN Update(s)
    ELSE IF s.updating THEN s
         ELSE [s EXCEPT !.tasks = Append(@, UpdateTask), !.updating = TRUE]

\* an exception, as the histories record it
Thrown(by, what) == [by |-> by, error |-> what, phase |-> phase]

\* ------------------------------------------------------- reactive child

\* DOM nodes: an Element is its own node, every Text node is a new one
ElementNode(e) == [tag |-> e, serial |-> 0, text |-> ""]
TextNode(n, v) == [tag |-> "#text", serial |-> n, text |-> v]

\* no node, and the RangeError of a recursion that does not end
NoNode == [tag |-> "#none", serial |-> 0, text |-> ""]
RangeError == [tag |-> "#RangeError", serial |-> 0, text |-> ""]

\* value.toString()
TextOf(v) == IF v = Seven THEN "7" ELSE v

\* DomRenderer.toElement for a string, a number or an Element
ToElement(s, v) ==
    IF v \in Elements THEN [st |-> s, node |-> ElementNode(v)]
    ELSE [st |-> [s EXCEPT !.texts = @ + 1], node |-> TextNode(s.texts + 1, TextOf(v))]

DomLog(s, step, n, m) ==
    [s EXCEPT !.domlog = Append(@, [step |-> step, node |-> n, other |-> m])]

\* a listener of node n cancels the skooma:beforereplace event
VetoedMut(s, n) == FALSE
Vetoed(s, n) == \E w \in s.vetoes : w.node = n

\* the {once: true} listeners of n are gone after the dispatch
AfterVeto(s, n) == [s EXCEPT !.vetoes = {w \in @ : ~(w.node = n /\ w.once)}]

\* Ref.replace(previous, next)
RefReplace(s, previous, next) ==
    LET map == s.newer
    IN IF previous \in DOMAIN map
       THEN [st |-> [s EXCEPT !.errors = Append(@, Thrown("Ref.replace", "already replaced"))],
             threw |-> TRUE]
       ELSE [st |-> [s EXCEPT !.newer = [n \in DOMAIN map \cup {previous} |->
                                            IF n = previous THEN next ELSE map[n]]],
             threw |-> FALSE]

\* Ref.deref from element e: follows Ref.#map while it has an entry; seen are
\* the elements visited, a second visit means the recursion never returns
RECURSIVE Follow(_, _, _)
Follow(map, e, seen) ==
    IF e \notin DOMAIN map THEN e
    ELSE IF map[e] \in seen THEN RangeError
    ELSE Follow(map, map[e], seen \cup {map[e]})

\* the elements deref assigns to #element on its way from e
RECURSIVE Visited(_, _, _)
Visited(map, e, seen) ==
    IF e \notin DOMAIN map \/ map[e] \in seen THEN seen
    ELSE Visited(map, map[e], seen \cup {map[e]})

\* observable.addEventListener("change", handleChange, {once: true})
Bind(s, id) ==
    DomLog(AddListener(s, Kid, Listener(id, "change", "reactive", Undefined, Undefined)),
           "subscribe", s.ref, s.ref)

\* handleChange of toReactiveElement; the exception of Ref.replace ends it
HandleChange(s, id) ==
    LET element == s.ref
        made == ToElement(s, s.value)
        next == made.node
        asked == DomLog(made.st, "beforereplace", element, next)
        heard == AfterVeto(asked, element)
        swapped == DomLog([heard EXCEPT !.place = IF @ = element THEN next ELSE @],
                          "replaceWith", element, next)
        recorded == RefReplace(swapped, element, next)
        told == DomLog(DomLog(DomLog(recorded.st, "Ref.replace", element, next),
                              "replaced", next, element),
                       "afterreplace", element, next)
    IN IF Vetoed(asked, element) THEN Bind(heard, id)
       ELSE IF recorded.threw THEN recorded.st
       ELSE Bind([told EXCEPT !.ref = next], id)

\* -------------------------------------------------- reactive attribute

\* getSpecialAttribute(element, name)?.set, the element being an input
HasSpecialSet(name) == name = "value"

\* DomRenderer.setAttribute for a string or a boolean false: the special
\* attribute's set writes String(value), false removes a plain attribute
Attribute(name, v) ==
    IF HasSpecialSet(name) THEN v
    ELSE IF v = False THEN Absent
    ELSE v

\* the functions an observable bound to an event attribute holds
Functions == {"f", "g"}

\* EventTarget.addEventListener(type, callback, {signal}): a callback that is
\* attached already is not attached again
AddEventListener(set, fn, signal) ==
    IF \E h \in set : h.fn = fn THEN set
    ELSE set \cup {[fn |-> fn, signal |-> signal]}

\* DomRenderer.setAttribute with cleanupSignal = multiAbort.signal
SetAttribute(s, name, v) ==
    IF v \in Functions
    THEN [s EXCEPT !.attached = AddEventListener(@, v, s.signals)]
    ELSE [s EXCEPT !.attr = Attribute(name, v)]

\* MultiAbortController.abort: the listeners added with the current signal
\* are removed, and a new controller takes the place of the aborted one
MultiAbort(s) ==
    [s EXCEPT !.attached = {h \in @ : h.signal # s.signals}, !.signals = @ + 1]

\* the change listener setReactiveAttribute installs
AttrListener(id, name) == Listener(id, "change", "attribute", name, Undefined)

\* ------------------------------------------------------ custom element

\* the names of the component's state properties and of its attributes,
\* letter by letter
Spelling ==
    [value |-> <<"v", "a", "l", "u", "e">>,
     fooBar |-> <<"f", "o", "o", "B", "a", "r">>] @@
    ("foo-bar" :> <<"f", "o", "o", "-", "b", "a", "r">>)

Named(letters) == CHOOSE n \in DOMAIN Spelling : Spelling[n] = letters

\* [a-z] and [A-Z], as far as the names go
LowerCase == <<"a", "b", "e", "f", "l", "o", "r", "u", "v">>
UpperCase == <<"A", "B", "E", "F", "L", "O", "R", "U", "V">>
IsLower(c) == c \in Range(LowerCase)
IsUpper(c) == c \in Range(UpperCase)
ToLowerCase(c) ==
    IF IsUpper(c) THEN LowerCase[CHOOSE i \in DOMAIN UpperCase : UpperCase[i] = c] ELSE c
ToUpperCase(c) ==
    IF IsLower(c) THEN UpperCase[CHOOSE i \in DOMAIN LowerCase : LowerCase[i] = c] ELSE c

\* string.replace(/([a-z])([A-Z])/g, (_, a, b) => `${a}-${b.toLowerCase()}`)
RECURSIVE Hyphenate(_)
Hyphenate(cs) ==
    IF Len(cs) < 2 THEN cs
    ELSE IF IsLower(cs[1]) /\ IsUpper(cs[2])
         THEN <<cs[1], "-", ToLowerCase(cs[2])>> \o Hyphenate(SubSeq(cs, 3, Len(cs)))
         ELSE <<cs[1]>> \o Hyphenate(Tail(cs))

camelToKebab(string) == Named(Hyphenate(Spelling[string]))

\* string.replace(/([a-z])-([a-z])/g, (_, a, b) => a+b.toUpperCase())
RECURSIVE Capitalize(_)
Capitalize(cs) ==
    IF Len(cs) < 3 THEN cs
    ELSE IF IsLower(cs[1]) /\ cs[2] = "-" /\ IsLower(cs[3])
         THEN <<cs[1], ToUpperCase(cs[3])>> \o Capitalize(SubSeq(cs, 4, Len(cs)))
         ELSE <<cs[1]>> \o Capitalize(Tail(cs))

kebabToCamel(string) == Named(Capitalize(Spelling[string]))

\* String(value)
String(v) ==
    CASE v = Seven -> "7"
      [] v = Null -> "null"
      [] OTHER -> v

\* the microtask that delivers the MutationObserver's records
ObserverTask == "attributeObserver"

\* element.setAttribute(name, value): the attribute holds the text of the
\* value, a record is queued, and the first record of a batch queues the
\* observer's microtask
DomSetAttribute(s, name, v) ==
    [s EXCEPT !.attributes[name] = String(v),
              !.mutations = Append(@, name),
              !.tasks = IF s.mutations = <<>> THEN Append(@, ObserverTask) ELSE @]

\* the body of the loop over event.changes
ReflectOne(s, change) ==
    LET kebabName == camelToKebab(change.property)
    IN IF s.attributes[kebabName] # String(change.to)
       THEN DomSetAttribute(s, kebabName, change.to)
       ELSE s

ReflectMut(s, changes) == s

\* the change listener of the component's state
RECURSIVE Reflect(_, _)
Reflect(s, changes) ==
    IF changes = <<>> THEN s
    ELSE Reflect(ReflectOne(s, Head(changes)), Tail(changes))

\* one listener's callback; the result tells whether it called preventDefault
Handle(s, o, l, ev) ==
    CASE l.kind = "subscriber" ->
            [st |-> SubscriberCall(s, o, l, ev), canceled |-> FALSE]
      [] l.kind = "validator" ->
            [st |-> s, canceled |-> ev.changes[1].to = l.val]
      [] l.kind = "adopt" ->
            [st |-> Emit(s, Par, BubbleArgs(l.prop, o), "bubble", l.prop),
             canceled |-> FALSE]
      [] l.kind = "once" ->
            [st |-> SetTrap(RemoveListener(s, o, l.type, l.id), l.prop, l.val).st,
             canceled |-> FALSE]
      [] l.kind = "reactive" ->
            [st |-> HandleChange(RemoveListener(s, o, l.type, l.id), l.id),
             canceled |-> FALSE]
      [] l.kind = "attribute" ->
            [st |-> SetAttribute(MultiAbort(s), l.prop, s.value), canceled |-> FALSE]
      [] l.kind = "reflect" ->
            [st |-> Reflect(s, ev.changes), canceled |-> FALSE]
      [] l.kind = "compose" ->
            [st |-> ScheduleUpdate(s), canceled |-> FALSE]
      [] l.kind = "forward" ->
            [st |-> IF ev.changes[1].property = l.prop
                    THEN Enqueue(s, Proj, ObjectKey, Undefined, Undefined).st
                    ELSE s,
             canceled |-> FALSE]

\* EventTarget.dispatchEvent over the listeners present when it began; a
\* listener removed meanwhile is skipped
RunAll(s, o, ls, ev, canceled) ==
    IF ls = <<>> THEN [st |-> s, canceled |-> canceled]
    ELSE IF Head(ls) \notin Range(s.listeners[o])
         THEN RunAll(s, o, Tail(ls), ev, canceled)
         ELSE RunRest(Handle(s, o, Head(ls), ev), o, Tail(ls), ev, canceled)

\* the listeners after one that answered r
RunRest(r, o, ls, ev, canceled) == RunAll(r.st, o, ls, ev, canceled \/ r.canceled)

Dispatch(s, o, ev) ==
    RunAll(s, o, SelectSeq(s.listeners[o], LAMBDA l : l.type = ev.type), ev, FALSE)

\* the class of o overrides Observable.emit
DefinesEmit(o) == o # Bare

\* emit of the class of o: the subclasses dispatch a change event with the
\* records, Observable.emit throws
Emit(s, o, changes, via, by) ==
    LET logged == [s EXCEPT !.events = Append(@, [target |-> o, via |-> via,
                                                  by |-> by, changes |-> changes])]
    IN IF DefinesEmit(o)
       THEN Dispatch(logged, o, [type |-> "change", changes |-> changes]).st
       ELSE [s EXCEPT !.errors = Append(@, Thrown("emit", "TypeError"))]

JoinBatchMut(s, o, change) ==
    LET opened == IF s.queue[o].defined THEN s
                  ELSE [s EXCEPT !.queue[o] = [defined |-> TRUE, items |-> <<>>],
                                 !.tasks = Append(@, o)]
    IN [opened EXCEPT !.queue[o].items = <<change>>]

\* the batch a deferred enqueue joins, created and scheduled when none is pending
JoinBatch(s, o, change) ==
    LET opened == IF s.queue[o].defined THEN s
                  ELSE [s EXCEPT !.queue[o] = [defined |-> TRUE, items |-> <<>>],
                                 !.tasks = Append(@, o)]
    IN [opened EXCEPT !.queue[o].items = Append(@, change)]

\* enqueue once dispatchEvent(new SynchronousChangeEvent(change)) answered pre
Announced(pre, o, change) ==
    LET log(t, ok) == [t EXCEPT !.enq = Append(@, [obs |-> o, change |-> change,
                                                   ok |-> ok, phase |-> phase])]
    IN IF pre.canceled THEN [st |-> log(pre.st, FALSE), ok |-> FALSE]
       ELSE IF ~sync[o]
            THEN [st |-> log(JoinBatch(pre.st, o, change), TRUE), ok |-> TRUE]
            ELSE [st |-> log(Emit(pre.st, o, <<change>>, "sync", Undefined), TRUE),
                  ok |-> TRUE]

Enqueue(s, o, p, from, to) ==
    Announced(Dispatch(s, o, [type |-> "synchronous",
                              changes |-> <<Change(p, from, to)>>]),
              o, Change(p, from, to))

\* the microtask enqueue schedules
\* this.#queue = undefined, not reached when emit threw
Unqueue(s, emitted, o) ==
    IF Len(emitted.errors) > Len(s.errors) THEN emitted
    ELSE [emitted EXCEPT !.queue[o] = NoQueue]

Flush(s, o) == Unqueue(s, Emit(s, o, s.queue[o].items, "flush", Undefined), o)

\* ------------------------------------------------------ ObservableObject

Adopted(s) == \E p \in Props : s.nested[p] # 0

Adopt(s, p, o) ==
    LET id == FreshId(s)
    IN [AddListener(s, o, Listener(id, "change", "adopt", p, Undefined))
          EXCEPT !.nested[p] = id]

\* threw: #nested has no entry for the Observable, handlers.get fails
Disown(s, p, o) ==
    IF ~Adopted(s) THEN [st |-> s, threw |-> TRUE]
    ELSE [st |-> [RemoveListener(s, o, "change", s.nested[p]) EXCEPT !.nested[p] = 0],
          threw |-> FALSE]

SameValueMut(old, v) == FALSE
SameValue(old, v) == old = v

\* if (this.enqueue(prop, old, value))
AcceptedMut(e) == TRUE
Accepted(e) == e.ok

\* the set trap of the values proxy; res is what it returns, or "throw"
\* the set trap once enqueue answered e
TrapStore(e, p, old, v) ==
    IF ~Accepted(e) THEN [st |-> e.st, res |-> "false"]
    ELSE LET d == IF IsObservable(old) THEN Disown(e.st, p, old)
                  ELSE [st |-> e.st, threw |-> FALSE]
             a == IF IsObservable(v) THEN Adopt(d.st, p, v) ELSE d.st
         IN IF d.threw THEN [st |-> d.st, res |-> "throw"]
            ELSE [st |-> [a EXCEPT !.store[p] = v], res |-> "true"]

SetTrap(s, p, v) ==
    IF SameValue(s.store[p], v) THEN [st |-> s, res |-> "true"]
    ELSE TrapStore(Enqueue(s, Par, p, s.store[p], v), p, s.store[p], v)

\* ------------------------------------------------------- ObservableValue

\* if (this.enqueue(...)) this.#value = value, e being what enqueue answered
ValueAssign(e, v) ==
    [st |-> IF e.ok THEN [e.st EXCEPT !.value = v] ELSE e.st,
     res |-> IF e.ok THEN "true" ELSE "false"]

ValueSetter(s, v) == ValueAssign(Enqueue(s, Kid, "value", s.value, v), v)

\* ------------------------------------------------ ProxiedObservableValue

\* get = identity, set = identity
ProjGet(v) == v
ProjSetMut(v) == "x"
ProjSet(v) == v

\* get value() { return this.get(this.#values[this.#prop]) }
ProjValue(s) == ProjGet(s.store[ProjProp])

\* set value(value) { this.#values[this.#prop] = this.set(value) }; in module
\* code an assignment the set trap answers with false throws a TypeError
StrictAssign(r) == [st |-> r.st, res |-> IF r.res = "false" THEN "throw" ELSE r.res]

ProjSetter(s, v) == StrictAssign(SetTrap(s, ProjProp, ProjSet(v)))

\* the 'synchronous' listener the constructor puts on the backend
ProjListener(id) == Listener(id, "synchronous", "forward", ProjProp, Undefined)

\* ----------------------------------------------------- ObservableElement

\* !this.#changedValue
Falsy(v) == v \in {False, ""}

\* the array ["value", v] passed to MultiChangeEvent as a change, seen through
\* the destructuring {property, from, to}
ArrayArg(v) == RawArg(v, FALSE)

\* #getValue(this[target]): this[target] is read under the module's symbol,
\* the constructor stored the target under another key, so the extractor is
\* applied to undefined: target => target.value throws
Extract(s) ==
    IF s.getter = "default" THEN [threw |-> TRUE, current |-> Undefined]
    ELSE [threw |-> FALSE, current |-> s.field]

\* #equal: (a, b) => a === b
ElemEqual(a, b) == a = b

\* ObservableElement.update, run by the 'mutation' listener
ElemUpdate(s) ==
    LET x == Extract(s)
        set == [s EXCEPT !.tracked = x.current]
    IN IF x.threw THEN [s EXCEPT !.errors = Append(@, Thrown("update", "TypeError"))]
       ELSE IF ElemEqual(s.tracked, x.current) THEN s
       ELSE IF sync[Elt]
            THEN Emit(set, Elt, <<ArrayArg(x.current)>>, "element", Undefined)
            ELSE IF Falsy(set.changed)
                 THEN [set EXCEPT !.tasks = Append(@, ElemTask), !.changed = x.current]
                 ELSE set

\* the microtask update queues: #changedValue is reset before it is read
ElemFlush(s) ==
    LET reset == [s EXCEPT !.changed = False]
    IN Emit(reset, Elt, <<ArrayArg(reset.changed)>>, "element", Undefined)

\* this.value as Observable.subscribe reads it
ValueOf(s, o) ==
    CASE o = Kid -> s.value
      [] o = Elt -> s.tracked
      [] o = Proj -> ProjValue(s)
      [] o \in Sources \cup {Cmp} -> s.cell[o]
      [] OTHER -> Undefined

Subscribe(s, o, p) ==
    LET id == FreshId(s)
        added == AddListener(s, o, Listener(id, "change", "subscriber", p, Undefined))
    IN [added EXCEPT !.calls = Append(@, [obs |-> o, id |-> id, prop |-> p,
                                          arg |-> ValueOf(s, o), phase |-> phase,
                                          at |-> "subscribe", seen |-> Len(s.events),
                                          read |-> Reading(s, o, p)])]

\* ---------------------------------------------------------------- steps

Commit(t) ==
    /\ store' = t.store
    /\ value' = t.value
    /\ queue' = t.queue
    /\ tasks' = t.tasks
    /\ listeners' = t.listeners
    /\ nested' = t.nested
    /\ enq' = t.enq
    /\ events' = t.events
    /\ calls' = t.calls
    /\ cell' = t.cell
    /\ updating' = t.updating
    /\ field' = t.field
    /\ tracked' = t.tracked
    /\ changed' = t.changed
    /\ getter' = t.getter
    /\ errors' = t.errors
    /\ place' = t.place
    /\ ref' = t.ref
    /\ newer' = t.newer
    /\ texts' = t.texts
    /\ vetoes' = t.vetoes
    /\ domlog' = t.domlog
    /\ attr' = t.attr
    /\ attached' = t.attached
    /\ signals' = t.signals
    /\ attributes' = t.attributes
    /\ mutations' = t.mutations

Op(kind, o, p, v, res) == [op |-> kind, obs |-> o, prop |-> p, val |-> v, res |-> res]

NoOp == Op("none", Undefined, Undefined, Undefined, "true")

Has(o, kind, p) == \E l \in Range(listeners[o]) : l.kind = kind /\ l.prop = p

CanAct == phase = "turn" /\ used < budget

\* what the histories remember of the state in which the turn began
Snapshot == [store |-> store, value |-> value, tracked |-> tracked]

\* the program composes nothing
NoComposition == cell = <<>> /\ updating = FALSE

\* the program wraps no DOM target
NoElement == field = Undefined /\ tracked = Undefined /\ changed = False /\ getter = "default"

\* the program has made no instance of Bare
NoBare == bareMade = FALSE

\* user code has made no Ref
NoRef == held = NoNode /\ got = NoNode

\* bind has been called and its update function not yet
NoBind == installed = NoNode /\ injected = {} /\ shown = NoNode

\* forward has not been called
NoForward ==
    /\ fwdCache = [p \in Props |-> 0]
    /\ live = {}
    /\ kept = {}
    /\ forwards = 0
    /\ fwd = [prop |-> Undefined, inst |-> 0]
    /\ returned = {}

\* the program makes no StoredState
NoStored ==
    /\ storage = <<>>
    /\ sdefer = <<>>
    /\ squeue = <<>>
    /\ stasks = <<>>
    /\ semits = <<>>
    /\ sevents = <<>>

\* the program composes no States
NoComposed ==
    /\ origin = <<>>
    /\ osync = <<>>
    /\ oqueue = <<>>
    /\ jobs = <<>>
    /\ composite = Undefined
    /\ microtaskQueued = FALSE
    /\ wrote = {}

\* the program makes none of the components modelled further down
\* the program defines no custom element
NoComponent == attributes = <<>> /\ mutations = <<>>

NoFurther == NoComposed /\ unsubscribed = {} /\ NoComponent

\* the program binds no attribute
NoAttribute == attr = Absent /\ attached = {} /\ signals = 0

\* the program renders nothing
NoDom ==
    /\ place = Undefined
    /\ ref = Undefined
    /\ newer = <<>>
    /\ texts = 0
    /\ vetoes = {}
    /\ domlog = <<>>

Constructed ==
    /\ NoComposition
    /\ NoElement
    /\ NoBare
    /\ NoRef
    /\ NoBind
    /\ NoForward
    /\ NoStored
    /\ NoFurther
    /\ NoAttribute
    /\ NoDom
    /\ errors = <<>>
    /\ sync \in SyncChoices
    /\ store \in Targets
    /\ value = "x"
    /\ queue = [o \in Obs |-> NoQueue]
    /\ tasks = <<>>
    /\ listeners = [o \in Obs |-> <<>>]
    /\ nested = [p \in Props |-> 0]
    /\ phase = "turn"
    /\ used = 0
    /\ last = NoOp
    /\ enq = <<>>
    /\ events = <<>>
    /\ calls = <<>>
    /\ start = Snapshot

Init == Constructed /\ budget = MaxOps

\* obj.values[p] = v
SetProperty(p, v) ==
    /\ CanAct
    /\ LET r == SetTrap(St, p, v)
       IN /\ Commit(r.st)
          /\ last' = Op("set", Par, p, v, r.res)
    /\ used' = used + 1
    /\ UNCHANGED <<outside, sync, phase, budget, start, bareMade>>

\* ov.value = v
SetValue(v) ==
    /\ CanAct
    /\ LET r == ValueSetter(St, v)
       IN /\ Commit(r.st)
          /\ last' = Op("set", Kid, "value", v, r.res)
    /\ used' = used + 1
    /\ UNCHANGED <<outside, sync, phase, budget, start, bareMade>>

\* o.subscribe(p, callback)
DoSubscribe(o, p) ==
    /\ CanAct
    /\ ~Has(o, "subscriber", p)
    /\ Commit(Subscribe(St, o, p))
    /\ last' = Op("subscribe", o, p, Undefined, "true")
    /\ used' = used + 1
    /\ UNCHANGED <<outside, sync, phase, budget, start, bareMade>>

\* o.addEventListener("synchronous", e => { if (e.change.to === bad) e.preventDefault() })
AddValidator(o, bad) ==
    /\ CanAct
    /\ \A l \in Range(listeners[o]) : l.kind # "validator"
    /\ Commit(AddListener(St, o,
                          Listener(FreshId(St), "synchronous", "validator", Undefined, bad)))
    /\ last' = Op("validator", o, Undefined, bad, "true")
    /\ used' = used + 1
    /\ UNCHANGED <<outside, sync, phase, budget, start, bareMade>>

\* obj.addEventListener("change", () => { obj.values[p] = v }, {once: true})
AddOnce(p, v) ==
    /\ CanAct
    /\ \A l \in Range(listeners[Par]) : l.kind # "once"
    /\ Commit(AddListener(St, Par, Listener(FreshId(St), "change", "once", p, v)))
    /\ last' = Op("once", Par, p, v, "true")
    /\ used' = used + 1
    /\ UNCHANGED <<outside, sync, phase, budget, start, bareMade>>

\* the turn's user code returns; the microtasks run next
EndTurn ==
    /\ phase = "turn"
    /\ phase' = "drain"
    /\ UNCHANGED <<outside, sync, store, value, queue, tasks, listeners, nested, budget, used,
                   last, enq, events, calls, start, cell, updating,
                   field, tracked, changed, getter, bareMade, errors,
                   place, ref, newer, texts, vetoes, domlog, attr, attached, signals,
                   attributes, mutations>>

\* the oldest microtask runs: () => { this.emit(...this.#queue); this.#queue = undefined }
RunMicrotask ==
    /\ phase = "drain"
    /\ tasks # <<>>
    /\ Head(tasks) \in DOMAIN queue
    /\ Commit(Flush([St EXCEPT !.tasks = Tail(@)], Head(tasks)))
    /\ UNCHANGED <<outside, sync, phase, budget, used, last, start, bareMade>>

\* the microtask queue is empty: the next turn begins
NextTurn ==
    /\ phase = "drain"
    /\ tasks = <<>>
    /\ phase' = "turn"
    /\ last' = NoOp
    /\ enq' = <<>>
    /\ events' = <<>>
    /\ calls' = <<>>
    /\ start' = Snapshot
    /\ errors' = <<>>
    /\ domlog' = <<>>
    /\ UNCHANGED <<outside, sync, store, value, queue, tasks, listeners, nested, budget, used,
                   cell, updating, field, tracked, changed, getter, bareMade,
                   place, ref, newer, texts, vetoes, attr, attached, signals,
                   attributes, mutations>>

Next ==
    \/ \E p \in Props, v \in PropVals : SetProperty(p, v)
    \/ \E v \in Vals : SetValue(v)
    \/ \E p \in Props : DoSubscribe(Par, p)
    \/ DoSubscribe(Kid, "value")
    \/ \E o \in Obs, bad \in BadVals : AddValidator(o, bad)
    \/ \E p \in OnceProps, v \in PropVals : AddOnce(p, v)
    \/ EndTurn
    \/ RunMicrotask
    \/ NextTurn

Spec == Init /\ [][Next]_vars

\* user code that registers no listener and only writes
WritesInit == Constructed /\ budget = MaxWrites

WritesNext ==
    \/ \E p \in Props, v \in PropVals : SetProperty(p, v)
    \/ \E v \in Vals : SetValue(v)
    \/ EndTurn
    \/ RunMicrotask
    \/ NextTurn

WritesSpec == WritesInit /\ [][WritesNext]_vars

\* ------------------------------------------------------ projection steps

\* obj = new ObservableObject({p1: "x", p2: "x"}, ...); px = obj.proxy("p1", ...)
ProjInit ==
    /\ NoComposition
    /\ NoElement
    /\ NoBare
    /\ NoRef
    /\ NoBind
    /\ NoForward
    /\ NoStored
    /\ NoFurther
    /\ NoAttribute
    /\ NoDom
    /\ errors = <<>>
    /\ sync \in {f \in [Obs \cup {Proj} -> BOOLEAN] : ~f[Kid]}
    /\ store = [p \in Props |-> "x"]
    /\ value = "x"
    /\ queue = [o \in Obs \cup {Proj} |-> NoQueue]
    /\ tasks = <<>>
    /\ listeners = [o \in Obs \cup {Proj} |-> IF o = Par THEN <<ProjListener(1)>> ELSE <<>>]
    /\ nested = [p \in Props |-> 0]
    /\ phase = "turn"
    /\ budget = MaxOps
    /\ used = 0
    /\ last = NoOp
    /\ enq = <<>>
    /\ events = <<>>
    /\ calls = <<>>
    /\ start = Snapshot

\* px.value = v
WriteThrough(v) ==
    /\ CanAct
    /\ LET r == ProjSetter(St, v)
       IN /\ Commit(r.st)
          /\ last' = Op("write", Proj, ProjProp, v, r.res)
    /\ used' = used + 1
    /\ UNCHANGED <<outside, sync, phase, budget, start, bareMade>>

ProjNext ==
    \/ \E v \in Vals : WriteThrough(v)
    \/ \E p \in Props, v \in Vals : SetProperty(p, v)
    \/ \E p \in Props : DoSubscribe(Par, p)
    \/ DoSubscribe(Proj, "value")
    \/ EndTurn
    \/ RunMicrotask
    \/ NextTurn

ProjSpec == ProjInit /\ [][ProjNext]_vars

\* ----------------------------------------------------- composition steps

CompObs == Sources \cup {Cmp}

\* a = new ObservableValue("1", ...); b = new ObservableValue("1", ...), and
\* the composition's fields and listeners before the constructor calls update
Uncomposed ==
    [store |-> [p \in Props |-> "x"], value |-> "x",
     queue |-> [o \in CompObs |-> NoQueue], tasks |-> <<>>,
     listeners |-> [o \in CompObs |->
                      CASE o = SrcA -> <<Listener(1, "change", "compose", Undefined, Undefined)>>
                        [] o = SrcB -> <<Listener(2, "change", "compose", Undefined, Undefined)>>
                        [] OTHER -> <<>>],
     nested |-> [p \in Props |-> 0],
     enq |-> <<>>, events |-> <<>>, calls |-> <<>>,
     cell |-> [o \in CompObs |-> IF o = Cmp THEN Undefined ELSE "1"],
     updating |-> FALSE,
     field |-> Undefined, tracked |-> Undefined, changed |-> False, getter |-> "default",
     errors |-> <<>>,
     place |-> Undefined, ref |-> Undefined, newer |-> <<>>, texts |-> 0,
     vetoes |-> {}, domlog |-> <<>>, attr |-> Absent,
     attached |-> {}, signals |-> 0,
     attributes |-> <<>>, mutations |-> <<>>]

\* c = compose(Combine)(a, b): compose passes no options, so c is deferred
CompInit ==
    /\ NoElement
    /\ NoBare
    /\ NoRef
    /\ NoBind
    /\ NoForward
    /\ NoStored
    /\ NoFurther
    /\ NoAttribute
    /\ NoDom
    /\ sync \in {f \in [CompObs -> BOOLEAN] : ~f[Cmp]}
    /\ phase = "turn"
    /\ budget = MaxOps
    /\ used = 0
    /\ last = NoOp
    /\ LET t == Update(Uncomposed)
       IN /\ store = t.store
          /\ value = t.value
          /\ queue = t.queue
          /\ tasks = t.tasks
          /\ listeners = t.listeners
          /\ nested = t.nested
          /\ enq = t.enq
          /\ events = t.events
          /\ calls = t.calls
          /\ cell = t.cell
          /\ updating = t.updating
          /\ field = t.field
          /\ tracked = t.tracked
          /\ changed = t.changed
          /\ getter = t.getter
          /\ errors = t.errors
          /\ NoDom
    /\ start = Snapshot

\* a.value = v, b.value = v
SetSource(o, v) ==
    /\ CanAct
    /\ LET r == CellSetter(St, o, v)
       IN /\ Commit(r.st)
          /\ last' = Op("set", o, "value", v, r.res)
    /\ used' = used + 1
    /\ UNCHANGED <<outside, sync, phase, budget, start, bareMade>>

\* c.value = v, by user code
AssignComposition(v) ==
    /\ CanAct
    /\ LET r == CellSetter(St, Cmp, v)
       IN /\ Commit(r.st)
          /\ last' = Op("assign", Cmp, "value", v, r.res)
    /\ used' = used + 1
    /\ UNCHANGED <<outside, sync, phase, budget, start, bareMade>>

\* the microtask of scheduleUpdate: () => { this.#microtaskQueued = false; this.update() }
RunUpdate ==
    /\ phase = "drain"
    /\ tasks # <<>>
    /\ Head(tasks) = UpdateTask
    /\ Commit(Update([St EXCEPT !.tasks = Tail(@), !.updating = FALSE]))
    /\ UNCHANGED <<outside, sync, phase, budget, used, last, start, bareMade>>

CompNext ==
    \/ \E o \in Sources, v \in SrcVals : SetSource(o, v)
    \/ \E v \in SrcVals : AssignComposition(v)
    \/ DoSubscribe(Cmp, "value")
    \/ EndTurn
    \/ RunMicrotask
    \/ RunUpdate
    \/ NextTurn

CompSpec == CompInit /\ [][CompNext]_vars

\* ------------------------------------------------------- element steps

\* el = new ObservableElement(target, {get, synchronous}), the target's value
\* being "x"
ElemInit ==
    /\ NoComposition
    /\ NoBare
    /\ NoRef
    /\ NoBind
    /\ NoForward
    /\ NoStored
    /\ NoFurther
    /\ NoAttribute
    /\ NoDom
    /\ errors = <<>>
    /\ sync \in [{Elt} -> BOOLEAN]
    /\ store = [p \in Props |-> "x"]
    /\ value = "x"
    /\ queue = [o \in {Elt} |-> NoQueue]
    /\ tasks = <<>>
    /\ listeners = [o \in {Elt} |-> <<>>]
    /\ nested = [p \in Props |-> 0]
    /\ field = "x"
    /\ tracked = "x"
    /\ changed = False
    /\ getter \in Getters
    /\ phase = "turn"
    /\ budget = MaxOps
    /\ used = 0
    /\ last = NoOp
    /\ enq = <<>>
    /\ events = <<>>
    /\ calls = <<>>
    /\ start = Snapshot

\* the target is mutated, the extractor's reading of it becoming v, and the
\* 'mutation' event reaches the listener the constructor registered
Mutate(v) ==
    /\ CanAct
    /\ LET r == ElemUpdate([St EXCEPT !.field = v])
       IN /\ Commit(r)
          /\ last' = Op("mutation", Elt, "value", v,
                        IF Len(r.errors) > Len(errors) THEN "throw" ELSE "true")
    /\ used' = used + 1
    /\ UNCHANGED <<outside, sync, phase, budget, start, bareMade>>

RunElemFlush ==
    /\ phase = "drain"
    /\ tasks # <<>>
    /\ Head(tasks) = ElemTask
    /\ Commit(ElemFlush([St EXCEPT !.tasks = Tail(@)]))
    /\ UNCHANGED <<outside, sync, phase, budget, used, last, start, bareMade>>

ElemNext ==
    \/ \E v \in ElemVals : Mutate(v)
    \/ DoSubscribe(Elt, "value")
    \/ EndTurn
    \/ RunElemFlush
    \/ NextTurn

ElemSpec == ElemInit /\ [][ElemNext]_vars

\* --------------------------------------------------- abstract base steps

\* if (this.constructor === Observable) throw new TypeError(...)
IsAbstractMut(cls) == FALSE
IsAbstract(cls) == cls = "Observable"

\* user code that will construct with {synchronous: sync[Bare]}
BaseInit ==
    /\ NoComposition
    /\ NoElement
    /\ NoBare
    /\ NoRef
    /\ NoBind
    /\ NoForward
    /\ NoStored
    /\ NoFurther
    /\ NoAttribute
    /\ NoDom
    /\ errors = <<>>
    /\ sync \in [{Bare} -> BOOLEAN]
    /\ store = [p \in Props |-> "x"]
    /\ value = "x"
    /\ queue = [o \in {Bare} |-> NoQueue]
    /\ tasks = <<>>
    /\ listeners = [o \in {Bare} |-> <<>>]
    /\ nested = [p \in Props |-> 0]
    /\ phase = "turn"
    /\ budget = MaxOps
    /\ used = 0
    /\ last = NoOp
    /\ enq = <<>>
    /\ events = <<>>
    /\ calls = <<>>
    /\ start = Snapshot

\* new Observable(options), new Bare(options)
New(cls) ==
    /\ CanAct
    /\ cls = Bare => ~bareMade
    /\ IF IsAbstract(cls)
       THEN /\ Commit([St EXCEPT !.errors = Append(@, Thrown("constructor", "TypeError"))])
            /\ last' = Op("new", cls, Undefined, Undefined, "throw")
            /\ bareMade' = bareMade
       ELSE /\ Commit(St)
            /\ last' = Op("new", cls, Undefined, Undefined, "true")
            /\ bareMade' = (bareMade \/ cls = Bare)
    /\ used' = used + 1
    /\ UNCHANGED <<outside, sync, phase, budget, start>>

\* bare.enqueue(p, from, to): the instance announces a change
BareEnqueue(p, from, to) ==
    /\ CanAct
    /\ bareMade
    /\ LET r == Enqueue(St, Bare, p, from, to)
       IN /\ Commit(r.st)
          /\ last' = Op("enqueue", Bare, p, to,
                        IF Len(r.st.errors) > Len(errors) THEN "throw"
                        ELSE IF r.ok THEN "true" ELSE "false")
    /\ used' = used + 1
    /\ UNCHANGED <<outside, sync, phase, budget, start, bareMade>>

BaseNext ==
    \/ \E cls \in Classes : New(cls)
    \/ \E p \in Props, from \in Vals, to \in Vals : BareEnqueue(p, from, to)
    \/ \E bad \in BadVals : bareMade /\ AddValidator(Bare, bad)
    \/ EndTurn
    \/ RunMicrotask
    \/ NextTurn

BaseSpec == BaseInit /\ [][BaseNext]_vars

\* ------------------------------------------------- reactive child steps

\* the heap before html.div(ov): ov = new ObservableValue(v0, ...)
Unrendered(v0) ==
    [store |-> [p \in Props |-> "x"], value |-> v0,
     queue |-> [o \in {Kid} |-> NoQueue], tasks |-> <<>>,
     listeners |-> [o \in {Kid} |-> <<>>],
     nested |-> [p \in Props |-> 0],
     enq |-> <<>>, events |-> <<>>, calls |-> <<>>,
     cell |-> <<>>, updating |-> FALSE,
     field |-> Undefined, tracked |-> Undefined, changed |-> False, getter |-> "default",
     errors |-> <<>>,
     place |-> Undefined, ref |-> Undefined, newer |-> <<>>, texts |-> 0,
     vetoes |-> {}, domlog |-> <<>>, attr |-> Absent,
     attached |-> {}, signals |-> 0,
     attributes |-> <<>>, mutations |-> <<>>]

\* toReactiveElement(ov): the rendering of the current value is put in place
\* and handleChange is subscribed
Rendered(v0) ==
    LET made == ToElement(Unrendered(v0), v0)
    IN Bind([made.st EXCEPT !.place = made.node, !.ref = made.node], 1)

DomInit ==
    /\ NoComposition
    /\ NoElement
    /\ NoBare
    /\ NoRef
    /\ NoBind
    /\ NoForward
    /\ NoStored
    /\ NoFurther
    /\ NoAttribute
    /\ sync \in [{Kid} -> BOOLEAN]
    /\ phase = "turn"
    /\ budget = MaxOps
    /\ used = 0
    /\ last = NoOp
    /\ \E v0 \in DomVals :
          LET t == Rendered(v0)
          IN /\ store = t.store
             /\ value = t.value
             /\ queue = t.queue
             /\ tasks = t.tasks
             /\ listeners = t.listeners
             /\ nested = t.nested
             /\ enq = t.enq
             /\ events = t.events
             /\ calls = t.calls
             /\ errors = t.errors
             /\ place = t.place
             /\ ref = t.ref
             /\ newer = t.newer
             /\ texts = t.texts
             /\ vetoes = t.vetoes
             /\ domlog = t.domlog
    /\ start = Snapshot

\* place.addEventListener("skooma:beforereplace", e => e.preventDefault(), {once})
AddVeto(once) ==
    /\ CanAct
    /\ ~Vetoed(St, place)
    /\ Commit([St EXCEPT !.vetoes = @ \cup {[node |-> place, once |-> once]}])
    /\ last' = Op("veto", Kid, Undefined, Undefined, "true")
    /\ used' = used + 1
    /\ UNCHANGED <<outside, sync, phase, budget, start, bareMade>>

DomNext ==
    \/ \E v \in DomVals : SetValue(v)
    \/ \E once \in BOOLEAN : AddVeto(once)
    \/ EndTurn
    \/ RunMicrotask
    \/ NextTurn

DomSpec == DomInit /\ [][DomNext]_vars

\* user code that registers no listener and assigns only values that differ
\* from the one the observable holds
ReplaceNext ==
    \/ \E v \in DomVals : v # value /\ SetValue(v)
    \/ EndTurn
    \/ RunMicrotask
    \/ NextTurn

ReplaceSpec == DomInit /\ [][ReplaceNext]_vars

\* -------------------------------------------------------------- Ref steps

\* the nodes that have been at the reactive child's place
Chain == {place} \cup DOMAIN newer \cup {newer[n] : n \in DOMAIN newer}

\* r = new Ref(n)
NewRef(n) ==
    /\ phase = "turn"
    /\ held = NoNode
    /\ held' = n
    /\ last' = Op("Ref", Undefined, Undefined, Undefined, "true")
    /\ UNCHANGED <<further, got, installed, injected, shown, forwarding, stored, sync, store, value, queue, tasks, listeners, nested, phase, budget,
                   used, enq, events, calls, start, cell, updating,
                   field, tracked, changed, getter, bareMade, errors,
                   place, ref, newer, texts, vetoes, domlog, attr, attached, signals,
                   attributes, mutations>>

\* r.deref(): when the recursion overflows the stack, #element is left at
\* whichever visited element the last frame assigned
DoDeref ==
    /\ phase = "turn"
    /\ held # NoNode
    /\ got' = Follow(newer, held, {held})
    /\ held' \in IF got' = RangeError THEN Visited(newer, held, {held}) ELSE {got'}
    /\ last' = Op("deref", Undefined, Undefined, Undefined,
                  IF got' = RangeError THEN "throw" ELSE "true")
    /\ UNCHANGED <<further, installed, injected, shown, forwarding, stored,
                   sync, store, value, queue, tasks, listeners, nested, phase, budget,
                   used, enq, events, calls, start, cell, updating,
                   field, tracked, changed, getter, bareMade, errors,
                   place, ref, newer, texts, vetoes, domlog, attr, attached, signals,
                   attributes, mutations>>

RefNext ==
    \/ \E v \in DomVals : v # value /\ SetValue(v)
    \/ \E n \in Chain : NewRef(n)
    \/ DoDeref
    \/ EndTurn
    \/ RunMicrotask
    \/ NextTurn

RefSpec == DomInit /\ [][RefNext]_vars

\* ------------------------------------------------------------- bind steps

\* the engine's variables, which bind neither reads nor writes
heap == <<sync, store, value, queue, tasks, listeners, nested, budget,
          enq, events, calls, start, cell, updating,
          field, tracked, changed, getter, bareMade,
          place, ref, newer, texts, vetoes, domlog, attr, attached, signals,
                   attributes, mutations>>
engine == <<heap, phase, errors>>

\* update = bind(transform)
BindInit ==
    /\ Constructed
    /\ sync = [o \in Obs |-> FALSE]
    /\ store = [p \in Props |-> "x"]
    /\ budget = MaxWrites

\* the getter inject defines: () => element
Current(el, n) == el

\* Object.defineProperty(next, 'current', {get}) on a node that owns the
\* property: it is not configurable and the getter is a new function
Redefines(owners, next) == next \in owners

\* update(...data), transform(...data) being r; the caller inserts the first
\* node it is handed
BindUpdate(r) ==
    /\ used < budget
    /\ used' = used + 1
    /\ IF r = Undefined
       THEN /\ UNCHANGED <<installed, injected, shown>>
            /\ last' = Op("update", Undefined, Undefined, r, Undefined)
       ELSE LET next == ElementNode(r)
            IN /\ shown' = next
               /\ IF Redefines(injected, next)
                  THEN /\ UNCHANGED <<installed, injected>>
                       /\ last' = Op("update", Undefined, Undefined, r, "throw")
                  ELSE /\ installed' = next
                       /\ injected' = injected \cup {next}
                       /\ last' = Op("update", Undefined, Undefined, r, r)
    /\ UNCHANGED <<further, held, got, forwarding, stored, engine>>

BindNext == \E r \in BindResults : BindUpdate(r)

BindSpec == BindInit /\ [][BindNext]_vars

\* ---------------------------------------------------------- forward steps

\* state = new State({...})
FwdInit ==
    /\ Constructed
    /\ sync = [o \in Obs |-> FALSE]
    /\ store = [p \in Props |-> "x"]
    /\ budget = MaxWrites

\* this.#forwardCache.get(property)?.deref(): 0 stands for undefined
CachedMut(cache, alive, p) == 0
Cached(cache, alive, p) == IF cache[p] \in alive THEN cache[p] ELSE 0

\* state.forward(p), the caller keeping the result
Forward(p) ==
    /\ used < budget
    /\ used' = used + 1
    /\ LET cached == Cached(fwdCache, live, p)
           result == IF cached # 0 THEN cached ELSE forwards + 1
       IN /\ IF cached # 0
             THEN UNCHANGED <<fwdCache, live, forwards>>
             ELSE /\ forwards' = forwards + 1
                  /\ live' = live \cup {result}
                  /\ fwdCache' = [fwdCache EXCEPT ![p] = result]
          /\ kept' = kept \cup {result}
          /\ fwd' = [prop |-> p, inst |-> result]
          /\ returned' = returned \cup {<<p, result>>}
    /\ last' = Op("forward", Undefined, p, Undefined, "true")
    /\ UNCHANGED <<further, held, got, installed, injected, shown, stored, engine>>

\* user code lets go of its reference to instance i
Release(i) ==
    /\ i \in kept
    /\ kept' = kept \ {i}
    /\ UNCHANGED <<further, held, got, installed, injected, shown, stored, engine,
                   fwdCache, live, forwards, fwd, returned, used, last>>

\* the garbage collector takes an unreferenced instance: its WeakRef empties;
\* the finalizer calls cache.remove(name), which no Map has, so the entry stays
Collect(i) ==
    /\ i \in live \ kept
    /\ live' = live \ {i}
    /\ UNCHANGED <<further, held, got, installed, injected, shown, stored, engine,
                   fwdCache, kept, forwards, fwd, returned, used, last>>

FwdNext ==
    \/ \E p \in Props : Forward(p)
    \/ \E i \in kept : Release(i)
    \/ \E i \in live : Collect(i)

FwdSpec == FwdInit /\ [][FwdNext]_vars

\* ------------------------------------------------------ StoredState steps

\* JSON.stringify(v); undefined has no JSON text and stringify returns undefined
Stringify(v) ==
    CASE v = Undefined -> Undefined
      [] v \in {NaN, Null} -> "null"
      [] v = Seven -> "7"
      [] OTHER -> "\"" \o v \o "\""

\* JSON.parse(text): String(text) is parsed; threw when it is not JSON
Parse(text) ==
    CASE text = "null" -> [threw |-> FALSE, val |-> Null]
      [] text = "7" -> [threw |-> FALSE, val |-> Seven]
      [] text = "\"x\"" -> [threw |-> FALSE, val |-> "x"]
      [] OTHER -> [threw |-> TRUE, val |-> Undefined]

\* if (prop == "value") prop = this.#valueKey
KeyOf(i, prop) == IF prop = "value" THEN ValueKey(i) ELSE prop

\* if (prop === this.#valueKey) prop = 'value'
PropOf(i, key) == IF key = ValueKey(i) THEN "value" ELSE key

\* the part of the state StoredState's methods transform
Sh == [squeue |-> squeue, stasks |-> stasks, semits |-> semits, sevents |-> sevents,
       errors |-> errors]

\* State.emit(prop, value); via tells the caller apart
StateEmit(h, i, prop, v, via) ==
    LET said == [h EXCEPT !.semits = Append(@, [inst |-> i, prop |-> prop,
                                                val |-> v, via |-> via])]
        item == [prop |-> prop, val |-> v]
    IN IF sdefer[i]
       THEN IF said.squeue[i].defined
            THEN [said EXCEPT !.squeue[i].items = Append(@, item)]
            ELSE [said EXCEPT !.squeue[i] = [defined |-> TRUE, items |-> <<item>>],
                              !.stasks = Append(@, i)]
       ELSE [said EXCEPT !.sevents = Append(@, [inst |-> i, changes |-> <<item>>])]

\* event.targetState !== this && event.storageArea == this.#storage
HearsMut(j, from) == Area(j) = Area(from)
Hears(j, from) == j # from /\ Area(j) = Area(from)

\* the handler of instance j for a storagechange event
StorageHandler(h, j, from, key, text) ==
    IF ~Hears(j, from) THEN h
    ELSE IF Parse(text).threw
         THEN [h EXCEPT !.errors = Append(@, Thrown("JSON.parse", "SyntaxError"))]
         ELSE StateEmit(h, j, PropOf(j, key), Parse(text).val, "handler")

\* dispatchEvent(new StorageChangeEvent(...)) on the window: the handlers of
\* the instances run in the order in which the instances were made
RECURSIVE Broadcast(_, _, _, _, _)
Broadcast(h, js, from, key, text) ==
    IF js = <<>> THEN h
    ELSE Broadcast(StorageHandler(h, Head(js), from, key, text), Tail(js), from, key, text)

\* three instances over empty storage areas: new StoredState({}, {storage, key: "k", defer})
StoredInit ==
    /\ NoFurther
    /\ NoComposition
    /\ NoElement
    /\ NoBare
    /\ NoRef
    /\ NoBind
    /\ NoForward
    /\ NoAttribute
    /\ NoDom
    /\ errors = <<>>
    /\ sync = [o \in Obs |-> FALSE]
    /\ store = [p \in Props |-> "x"]
    /\ value = "x"
    /\ queue = [o \in Obs |-> NoQueue]
    /\ tasks = <<>>
    /\ listeners = [o \in Obs |-> <<>>]
    /\ nested = [p \in Props |-> 0]
    /\ phase = "turn"
    /\ budget = MaxOps
    /\ used = 0
    /\ last = NoOp
    /\ enq = <<>>
    /\ events = <<>>
    /\ calls = <<>>
    /\ start = Snapshot
    /\ storage = [a \in Areas |-> [k \in StoredKeys |-> Absent]]
    /\ sdefer \in {f \in [Range(Stored) -> BOOLEAN] : f["s3"]}
    /\ squeue = [i \in Range(Stored) |-> NoQueue]
    /\ stasks = <<>>
    /\ semits = <<>>
    /\ sevents = <<>>

\* state.proxy[prop] = v: the set trap emits, then StoredState.set broadcasts
\* the JSON text and stores it (a Storage keeps String(text))
StoredWrite(i, prop, v) ==
    /\ CanAct
    /\ used' = used + 1
    /\ LET key == KeyOf(i, prop)
           text == Stringify(v)
           h == Broadcast(StateEmit(Sh, i, prop, v, "proxy"), Stored, i, key, text)
       IN /\ squeue' = h.squeue
          /\ stasks' = h.stasks
          /\ semits' = h.semits
          /\ sevents' = h.sevents
          /\ errors' = h.errors
          /\ storage' = [storage EXCEPT ![Area(i)][key] = text]
    /\ last' = Op("write", i, prop, v, "true")
    /\ UNCHANGED <<further, held, got, installed, injected, shown, forwarding, sdefer, heap, phase>>

\* the oldest microtask of State.emit: dispatch the batch, drop the queue
StoredFlush ==
    /\ phase = "drain"
    /\ stasks # <<>>
    /\ LET i == Head(stasks)
       IN /\ sevents' = Append(sevents, [inst |-> i, changes |-> squeue[i].items])
          /\ squeue' = [squeue EXCEPT ![i] = NoQueue]
    /\ stasks' = Tail(stasks)
    /\ UNCHANGED <<further, held, got, installed, injected, shown, forwarding, engine,
                   storage, sdefer, semits, used, last>>

\* the microtask queue is empty: the next turn begins
StoredNextTurn ==
    /\ phase = "drain"
    /\ stasks = <<>>
    /\ phase' = "turn"
    /\ last' = NoOp
    /\ semits' = <<>>
    /\ sevents' = <<>>
    /\ errors' = <<>>
    /\ UNCHANGED <<further, held, got, installed, injected, shown, forwarding, heap,
                   storage, sdefer, squeue, stasks, used>>

StoredNext ==
    \/ \E i \in Range(Stored), prop \in StoredProps, v \in StoredVals : StoredWrite(i, prop, v)
    \/ EndTurn
    \/ StoredFlush
    \/ StoredNextTurn

StoredSpec == StoredInit /\ [][StoredNext]_vars

\* ------------------------------------------------ reactive attribute steps

\* ov = new ObservableValue("x", ...); html.input({[name]: ov})
AttrInit ==
    /\ NoComposition
    /\ NoElement
    /\ NoBare
    /\ NoRef
    /\ NoBind
    /\ NoForward
    /\ NoStored
    /\ NoFurther
    /\ NoDom
    /\ errors = <<>>
    /\ sync \in [{Kid} -> BOOLEAN]
    /\ store = [p \in Props |-> "x"]
    /\ value = "x"
    /\ queue = [o \in {Kid} |-> NoQueue]
    /\ tasks = <<>>
    /\ \E name \in Attrs :
          /\ listeners = [o \in {Kid} |-> <<AttrListener(1, name)>>]
          /\ attr = Attribute(name, "x")
    /\ attached = {}
    /\ signals = 0
    /\ nested = [p \in Props |-> 0]
    /\ phase = "turn"
    /\ budget = MaxOps
    /\ used = 0
    /\ last = NoOp
    /\ enq = <<>>
    /\ events = <<>>
    /\ calls = <<>>
    /\ start = Snapshot

AttrNext ==
    \/ \E v \in AttrVals : SetValue(v)
    \/ EndTurn
    \/ RunMicrotask
    \/ NextTurn

AttrSpec == AttrInit /\ [][AttrNext]_vars

\* ------------------------------------------------------------- histories

\* the microtask queue has drained: the turn's batches have been flushed
Quiescent == phase = "drain" /\ tasks = <<>>

Indices(seq, Test(_)) == {i \in DOMAIN seq : Test(seq[i])}

\* the change events the flush of o's batch dispatched since the turn began
FlushesOf(o) == Indices(events, LAMBDA e : e.target = o /\ e.via = "flush")

\* the change events adoption handlers dispatched on Par since the turn began
Bubbles == Indices(events, LAMBDA e : e.target = Par /\ e.via = "bubble")

\* the properties of Par whose value differs from the one at the turn's start
NetDiff == [p \in {q \in Props : start.store[q] # store[q]} |-> store[p]]

\* a listener wrote to Par while the microtasks ran
DrainWrites == \E i \in DOMAIN enq : enq[i].obs = Par /\ enq[i].phase = "drain"

\* the user code of this turn made a write to Par that enqueue accepted
TurnWrites == \E i \in DOMAIN enq : enq[i].obs = Par /\ enq[i].phase = "turn" /\ enq[i].ok

\* the step is a user operation
UserStep == used' = used + 1

\* ----------------------------------------------------------------- C1

\* C1: for a deferred ObservableObject, the property writes of one turn (at
\* least one of them changing a value) cause exactly one change event at the
\* flush, and its final view holds exactly the properties whose value at the
\* end of the turn differs from the one at its start.
C1_OneEventNetChange ==
    (Quiescent /\ ~sync[Par] /\ TurnWrites /\ ~DrainWrites) =>
        /\ Cardinality(FlushesOf(Par)) = 1
        /\ \A i \in FlushesOf(Par) : Final(events[i].changes) = NetDiff

\* ----------------------------------------------------------------- C2

\* the places of property p's records in a batch
RecordsOf(changes, p) == {i \in DOMAIN changes : changes[i].property = p}

Least(S) == CHOOSE i \in S : \A j \in S : i <= j
Greatest(S) == CHOOSE i \in S : \A j \in S : j <= i

\* the final view of a batch is right for property p
FinalRightFor(changes, p) ==
    LET its == RecordsOf(changes, p)
        first == changes[Least(its)]
        latest == changes[Greatest(its)]
    IN /\ p \in DOMAIN Final(changes) <=> first.from # latest.to
       /\ p \in DOMAIN Final(changes) => Final(changes)[p] = latest.to

\* C2: the final view of every dispatched batch maps a property to the `to` of
\* its last record exactly when the `from` of its first record differs from it,
\* and has no other entries.
C2_FinalIsNetChange ==
    \A i \in DOMAIN events :
        LET changes == events[i].changes
            present == {changes[j].property : j \in DOMAIN changes}
        IN /\ DOMAIN Final(changes) \subseteq present
           /\ \A p \in present : FinalRightFor(changes, p)

\* a batch wrote a property away from its value and back, beside a net change
C2_Witness ==
    \E i \in DOMAIN events :
        LET changes == events[i].changes
        IN /\ \E p \in Props :
                /\ Cardinality(RecordsOf(changes, p)) >= 2
                /\ changes[Least(RecordsOf(changes, p))].from
                       = changes[Greatest(RecordsOf(changes, p))].to
                /\ p \notin DOMAIN Final(changes)
           /\ DOMAIN Final(changes) # {}

\* ----------------------------------------------------------------- C3

\* C3: a write of the value a property of the ObservableObject already holds
\* calls no enqueue, dispatches no event, invokes no callback, and leaves the
\* store, the batch and the adoption map as they are.
C3_SameValueWriteIsSilent ==
    [][(/\ UserStep
        /\ last'.op = "set"
        /\ last'.obs = Par
        /\ store[last'.prop] = last'.val)
       => /\ last'.res = "true"
          /\ UNCHANGED <<store, nested, queue, tasks, listeners, enq, events, calls>>]_vars

\* the latest operation wrote to a property the value it held, with listeners around
C3_Witness ==
    /\ phase = "turn"
    /\ last.op = "set"
    /\ last.obs = Par
    /\ enq = <<>>
    /\ store[last.prop] = last.val
    /\ Has(Par, "subscriber", last.prop)

\* ----------------------------------------------------------------- C4

\* C4: assigning to an ObservableValue the value it already holds calls no
\* enqueue, dispatches no event and invokes no callback.
C4_SameValueAssignIsSilent ==
    [][(/\ UserStep
        /\ last'.op = "set"
        /\ last'.obs = Kid
        /\ value = last'.val)
       => UNCHANGED <<queue, tasks, enq, events, calls>>]_vars

\* ----------------------------------------------------------------- C5

\* what an Observable currently holds under a property
CurrentValue(o, p) == IF o = Kid THEN value ELSE store[p]

\* C5: subscribe(property, callback) calls the callback once, before it
\* returns, with the current value of the subscribed property.
C5_SubscribeCallsWithCurrent ==
    (phase = "turn" /\ last.op = "subscribe") =>
        /\ calls # <<>>
        /\ LET c == calls[Len(calls)]
           IN /\ c.at = "subscribe"
              /\ c.obs = last.obs
              /\ c.prop = last.prop
              /\ c.arg = CurrentValue(last.obs, last.prop)
              /\ Cardinality({i \in DOMAIN calls :
                                 calls[i].id = c.id /\ calls[i].at = "subscribe"}) = 1

\* ----------------------------------------------------------------- C6

\* the callbacks of o's subscriber that ran after the microtask boundary
DrainCalls(o) == Indices(calls, LAMBDA c : c.obs = o /\ c.phase = "drain")

\* C6: the writes of one turn to a deferred ObservableValue with a subscriber
\* make the subscriber run exactly once after the microtask boundary, with the
\* last written value (the value of the last write that was not rejected),
\* when that differs from the value at the turn's start, and not at all
\* otherwise.
C6_OneCallPerBatch ==
    (Quiescent /\ ~sync[Kid] /\ Has(Kid, "subscriber", "value")) =>
        IF value # start.value
        THEN /\ Cardinality(DrainCalls(Kid)) = 1
             /\ \A i \in DrainCalls(Kid) :
                    /\ calls[i].arg = value
                    /\ (last.op = "set" /\ last.obs = Kid /\ last.res = "true")
                           => calls[i].arg = last.val
        ELSE DrainCalls(Kid) = {}

\* the subscriber was there when the turn began, the turn wrote the value
\* twice and the subscriber has run once for the batch
C6_Witness ==
    /\ Quiescent
    /\ ~sync[Kid]
    /\ Has(Kid, "subscriber", "value")
    /\ Cardinality(Indices(calls, LAMBDA c : c.obs = Kid)) = 1
    /\ Cardinality(DrainCalls(Kid)) = 1
    /\ Cardinality(Indices(enq, LAMBDA e : e.obs = Kid)) >= 2

\* ----------------------------------------------------------------- C7

\* a 'synchronous' listener of Par cancels the writes of value v
Rejects(v) == \E l \in Range(listeners[Par]) : l.kind = "validator" /\ l.val = v

\* C7: when a listener cancels the pre-change event of a write, enqueue returns
\* false, nothing is queued, scheduled or emitted, the store and the adoption
\* map stay as they are and the set trap reports the write as not accepted.
C7_CanceledWriteIsRejected ==
    [][(/\ UserStep
        /\ last'.op = "set"
        /\ last'.obs = Par
        /\ store[last'.prop] # last'.val
        /\ Rejects(last'.val))
       => /\ last'.res = "false"
          /\ enq' = Append(enq, [obs |-> Par,
                                 change |-> Change(last'.prop, store[last'.prop], last'.val),
                                 ok |-> FALSE, phase |-> "turn"])
          /\ UNCHANGED <<store, nested, queue, tasks, listeners, events, calls>>]_vars

\* a write was canceled while a batch was already pending
C7_Witness ==
    /\ phase = "turn"
    /\ last.op = "set"
    /\ last.res = "false"
    /\ enq # <<>>
    /\ ~enq[Len(enq)].ok
    /\ queue[Par].defined

\* ----------------------------------------------------------------- C8

\* how often enqueue accepted record c of o since the turn began
AcceptedCount(o, c) ==
    Cardinality({i \in DOMAIN enq : enq[i].obs = o /\ enq[i].ok /\ enq[i].change = c})

\* how often record c of o was carried by a dispatched change event
DeliveredCount(o, c) ==
    Cardinality(UNION {{<<i, j>> : j \in {k \in DOMAIN events[i].changes :
                                             events[i].changes[k] = c}} :
                       i \in {k \in DOMAIN events : events[k].target = o}})

\* Par held no nested Observable when the turn began, so that no write of the
\* turn can fail in disown
BeganPlain == \A p \in Props : start.store[p] # Kid

\* C8: every change record enqueue accepted is delivered in exactly one
\* dispatched change event, also when a listener enqueued it during a dispatch
\* (stated for the turns Par began without a nested Observable).
C8_EveryRecordDeliveredOnce ==
    (Quiescent /\ BeganPlain) =>
        \A i \in DOMAIN enq :
            enq[i].ok =>
                DeliveredCount(enq[i].obs, enq[i].change)
                    = AcceptedCount(enq[i].obs, enq[i].change)

\* ----------------------------------------------------------------- C9

\* C9: a change of a nested Observable held under property p reaches the
\* parent's listeners as a change record of property p, tagged observable
\* (stated for the turns in which the nested value changed).
C9_BubbleNamesProperty ==
    value # start.value =>
      \A i \in Bubbles :
        \E j \in DOMAIN events[i].changes :
            /\ events[i].changes[j].property = events[i].by
            /\ events[i].changes[j].observable

\* ---------------------------------------------------------------- C10

\* since the turn began the nested Observable was adopted under pa and pb,
\* then disowned from pa, and then it changed
AdoptedTwiceDisownedOnce(pa, pb) ==
    \E i, j, k, m \in DOMAIN enq :
        /\ i < k /\ j < k /\ k < m
        /\ \A n \in {i, j, k} : enq[n].obs = Par /\ enq[n].ok
        /\ enq[i].change.property = pa /\ enq[i].change.to = Kid
        /\ enq[j].change.property = pb /\ enq[j].change.to = Kid
        /\ enq[k].change.property = pa /\ enq[k].change.from = Kid
        /\ enq[m].obs = Kid /\ enq[m].ok /\ enq[m].change.from # enq[m].change.to
        /\ \A n \in DOMAIN enq : n > k => enq[n].obs = Kid

\* C10: after adoption under two properties and disowning from one, a change
\* of the nested Observable bubbles exactly once, as a change of the remaining
\* property.
C10_OneBubbleForRemaining ==
    \A pa, pb \in Props :
        (Quiescent /\ pa # pb /\ AdoptedTwiceDisownedOnce(pa, pb)) =>
            /\ Cardinality(Bubbles) = 1
            /\ \A i \in Bubbles :
                   /\ \E j \in DOMAIN events[i].changes :
                          events[i].changes[j].property = pb
                   /\ \A j \in DOMAIN events[i].changes :
                          events[i].changes[j].property # pa

\* ---------------------------------------------------------------- C11

\* the enqueue calls of the step on object o
NewEnq(o) == {i \in DOMAIN enq' : i > Len(enq) /\ enq'[i].obs = o}

\* the change events the step dispatched on object o
NewEvents(o) == {i \in DOMAIN events' : i > Len(events) /\ events'[i].target = o}

BackendChanges ==
    Indices(enq, LAMBDA e : e.obs = Par /\ e.ok /\ e.change.property = ProjProp)

\* the records the projection announced on itself
Reannounced == Indices(enq, LAMBDA e : e.obs = Proj)

\* C12: every change of the backend's projected property from a to b is
\* announced on the projection as a record of 'value' from get(a) to get(b),
\* a subscriber of the projection that was there when the turn began is
\* notified with get(b) when the turn changed the property, and changes of
\* other properties are not announced on the projection.
C12_ProjectionReannounces ==
    Quiescent =>
        /\ \A i \in BackendChanges :
              \E j \in Reannounced :
                  /\ enq[j].change.from = ProjGet(enq[i].change.from)
                  /\ enq[j].change.to = ProjGet(enq[i].change.to)
        /\ Cardinality(Reannounced) = Cardinality(BackendChanges)
        /\ (/\ Has(Proj, "subscriber", "value")
            /\ \A i \in DOMAIN calls : calls[i].at # "subscribe"
            /\ store[ProjProp] # start.store[ProjProp])
              => \E i \in DOMAIN calls :
                     /\ calls[i].obs = Proj
                     /\ calls[i].arg = ProjGet(store[ProjProp])

\* ---------------------------------------------------------------- C13

\* the value ObservableValue o held when the turn began
TurnStart(o) ==
    LET its == Indices(enq, LAMBDA e : e.obs = o)
    IN IF its = {} THEN cell[o] ELSE enq[Least(its)].change.from

\* the turn in which the composition was constructed
ConstructionTurn == \E i \in DOMAIN enq : enq[i].obs = Cmp /\ enq[i].change.from = Undefined

\* user code assigned to the composition's value in this turn
AssignedInTurn == \E i \in DOMAIN enq : enq[i].obs = Cmp /\ enq[i].phase = "turn"

\* the callbacks of the composition's subscriber since the turn began
CmpCalls == Indices(calls, LAMBDA c : c.obs = Cmp)

\* C13: when one source has a net change in a turn, the composition holds the
\* recombined value and its subscriber is called exactly once, with that
\* value; when no source is written, the composition dispatches no change
\* event (stated for the turns after the one that constructed the composition,
\* without an assignment to the composition, the subscriber being there from
\* the turn's start).
C13_OneNotificationPerChange ==
    (/\ Quiescent
     /\ ~ConstructionTurn
     /\ ~AssignedInTurn
     /\ Has(Cmp, "subscriber", "value")
     /\ \A i \in DOMAIN calls : calls[i].at # "subscribe") =>
        /\ Cardinality({o \in Sources : cell[o] # TurnStart(o)}) = 1 =>
              /\ cell[Cmp] = Combine(cell[SrcA], cell[SrcB])
              /\ Cardinality(CmpCalls) = 1
              /\ \A i \in CmpCalls : calls[i].arg = cell[Cmp]
        /\ (\A i \in DOMAIN enq : enq[i].obs \notin Sources) =>
              \A i \in DOMAIN events : events[i].target # Cmp

\* ---------------------------------------------------------------- C14

\* C14: the value of the composition equals Combine applied to the sources'
\* current values (stated for the states in which no microtask is pending,
\* the composition being deferred).
C14_ValueIsCombination ==
    Quiescent => cell[Cmp] = Combine(cell[SrcA], cell[SrcB])

\* ---------------------------------------------------------------- C15

\* C15: an assignment to the composition's value by user code leaves the value
\* it holds as it is, announces nothing and schedules nothing.
C15_CompositionIsReadOnly ==
    [][(UserStep /\ last'.op = "assign")
          => UNCHANGED <<cell, queue, tasks, enq, events, calls>>]_vars

\* ---------------------------------------------------------------- C16

\* C16: at every mutation notification the ObservableElement reads the
\* target through the extractor; when the comparator finds the reading equal
\* to the tracked value, nothing is dispatched or scheduled and the tracked
\* value stays; otherwise the tracked value becomes the reading.
C16_UpdateRecomputes ==
    [][(UserStep /\ last'.op = "mutation") =>
          IF ElemEqual(tracked, field')
          THEN UNCHANGED <<tracked, changed, tasks, events, calls>>
          ELSE tracked' = field']_vars

\* ---------------------------------------------------------------- C17

\* the change events dispatched on the ObservableElement since the turn began
ElemEvents == Indices(events, LAMBDA e : e.target = Elt)

\* C17: the value-changing mutation notifications of one turn to a deferred
\* ObservableElement cause exactly one change event, which carries a change
\* of 'value' from the tracked value before the batch to the final one, and
\* a subscriber that was there when the turn began is called once, with the
\* final value (stated for an extractor that reads the target, and for the
\* turns over which the tracked value changed).
C17_OneEventFirstToFinal ==
    (/\ Quiescent
     /\ ~sync[Elt]
     /\ getter = "closure"
     /\ tracked # start.tracked) =>
        /\ Cardinality(ElemEvents) = 1
        /\ \A i \in ElemEvents :
              \E j \in DOMAIN events[i].changes :
                  events[i].changes[j] = Change("value", start.tracked, tracked)
        /\ (/\ Has(Elt, "subscriber", "value")
            /\ \A i \in DOMAIN calls : calls[i].at # "subscribe")
              => /\ Cardinality(Indices(calls, LAMBDA c : c.obs = Elt)) = 1
                 /\ \A i \in DOMAIN calls : calls[i].arg = tracked

\* ---------------------------------------------------------------- C18

\* the step throws
Fails == Len(errors') > Len(errors)

\* the step is a call of emit on the instance of Bare: an enqueue that no
\* listener cancels on a synchronous instance, or the flush of its batch
Announces ==
    \/ /\ UserStep
       /\ last'.op = "enqueue"
       /\ sync[Bare]
       /\ enq'[Len(enq')].ok
    \/ /\ phase = "drain"
       /\ phase' = "drain"
       /\ tasks # <<>>
       /\ Head(tasks) = Bare

\* C18: new Observable() throws and makes no instance; new Bare() of a
\* subclass without emit succeeds; afterwards exactly the steps that
\* announce a change fail: the accepted enqueue of a synchronous instance, and
\* the flush of a deferred one (whose enqueue has returned true).
C18_AbstractFailsLate ==
    [][/\ (UserStep /\ last'.op = "new" /\ last'.obs = "Observable")
             => last'.res = "throw" /\ Fails /\ bareMade' = bareMade
       /\ (UserStep /\ last'.op = "new" /\ last'.obs = Bare)
             => last'.res = "true" /\ ~Fails /\ bareMade'
       /\ ~(UserStep /\ last'.op = "new") => (Fails <=> Announces)
       /\ (UserStep /\ last'.op = "enqueue")
             => last'.res = (IF ~enq'[Len(enq')].ok THEN "false"
                             ELSE IF sync[Bare] THEN "throw" ELSE "true")]_vars

\* a deferred instance of Bare was constructed without error, its enqueue
\* returned true in the turn, and the flush has thrown
C18_Witness ==
    /\ bareMade
    /\ ~sync[Bare]
    /\ phase = "drain"
    /\ last.op = "enqueue"
    /\ last.res = "true"
    /\ \E i \in DOMAIN errors : errors[i].by = "emit" /\ errors[i].phase = "drain"
    /\ \A i \in DOMAIN errors : errors[i].phase = "drain"

\* ---------------------------------------------------------------- C19

\* handleChange is subscribed to the observable
Bound == \E l \in Range(listeners[Kid]) : l.kind = "reactive"

\* node is the rendering of value v
Renders(node, v) ==
    IF v \in Elements THEN node = ElementNode(v)
    ELSE node.tag = "#text" /\ node.text = TextOf(v)

\* a listener of the node the binding holds cancels skooma:beforereplace
HeldIsVetoed == \E w \in vetoes : w.node = ref

\* C19: after every change event of the observable the node at the reactive
\* child's place is the rendering of the observable's current value, and
\* handleChange is subscribed again (stated for a deferred observable, and
\* for the changes no listener of the old node cancels).
C19_ChildTracksObservable ==
    [][(NewEvents(Kid) # {} /\ ~sync[Kid] /\ ~HeldIsVetoed)
          => (Renders(place', value') /\ Bound')]_vars

\* ---------------------------------------------------------------- C20

\* C20: when a listener cancels the before-replace event on the old node, the
\* node stays in its place, Ref records nothing, handleChange dispatches
\* nothing but the before-replace event, nothing is thrown, and handleChange
\* is subscribed again.
C20_CanceledReplaceKeepsBinding ==
    [][(NewEvents(Kid) # {} /\ Bound /\ HeldIsVetoed) =>
          /\ place' = place
          /\ ref' = ref
          /\ DOMAIN newer' = DOMAIN newer
          /\ errors' = errors
          /\ Len(domlog') = Len(domlog) + 2
          /\ domlog'[Len(domlog) + 1].step = "beforereplace"
          /\ domlog'[Len(domlog) + 1].node = ref
          /\ domlog'[Len(domlog) + 2].step = "subscribe"
          /\ Bound']_vars

\* two changes of the observable in one turn were both canceled: the second
\* one was attempted because the binding had stayed subscribed
C20_Witness ==
    /\ Bound
    /\ HeldIsVetoed
    /\ Cardinality(Indices(domlog, LAMBDA d : d.step = "beforereplace")) = 2
    /\ Indices(domlog, LAMBDA d : d.step = "replaceWith") = {}
    /\ place = ref
    /\ DOMAIN newer = {}

BoundName == listeners[Kid][1].prop

\* C21: after every change event of an observable bound as an attribute value,
\* the attribute reflects the observable's current value, whether the
\* observable is deferred or synchronous
C21_AttributeFollowsValue ==
    [][Len(events') > Len(events) => attr' = Attribute(BoundName, value')]_vars

\* C22: after any sequence of reactive replacements e0 -> ... -> en, deref()
\* of a Ref made for any element of the chain returns en, the node now in
\* place; stated for a deferred observable, whose listeners read the value the
\* change event announces
C22_DerefReturnsLatest ==
    (~sync[Kid] /\ phase = "turn" /\ last.op = "deref") => got = place

\* C23: after any sequence of update calls the 'current' property of every
\* node an update call installed returns the node installed most recently, and
\* an update whose transform returns a falsy value installs nothing and leaves
\* 'current' unchanged
C23_CurrentIsLatest ==
    [][/\ \A n \in injected' : Current(installed', n) = shown'
       /\ last'.val = Undefined => UNCHANGED <<installed, injected, shown>>]_vars

\* C24: while a projection forward(p) returned earlier is alive, every further
\* forward(p) on the same State returns that instance, and calls for different
\* properties return different instances
C24_ForwardIsCached ==
    [][used' = used + 1
       => /\ \A i \in live : <<fwd'.prop, i>> \in returned => fwd'.inst = i
          /\ \A a, b \in returned' : a[1] # b[1] => a[2] # b[2]]_vars

\* a second forward(p) while the first result is alive, and a forward(q) for
\* another property
C24_Witness ==
    /\ \E i \in live : <<fwd.prop, i>> \in returned /\ used > forwards
    /\ \E a, b \in returned : a[1] # b[1]

\* the emits that instance j made from its storage handler in this step
HandlerEmits(j) ==
    SelectSeq(SubSeq(semits', Len(semits) + 1, Len(semits')),
              LAMBDA e : e.inst = j /\ e.via = "handler")

\* C25: when a StoredState writes a property, its own storage handler emits
\* nothing, and every other StoredState on the same storage area emits one
\* change for that key with the decoded new value
C25_OwnWriteIsFiltered ==
    [][used' = used + 1
       => LET w == last'
          IN \A j \in Range(Stored) :
                /\ j = w.obs => HandlerEmits(j) = <<>>
                /\ (j # w.obs /\ Area(j) = Area(w.obs))
                   => /\ Len(HandlerEmits(j)) = 1
                      /\ HandlerEmits(j)[1].prop = PropOf(j, KeyOf(w.obs, w.prop))
                      /\ Stringify(HandlerEmits(j)[1].val) = Stringify(w.val)]_vars

\* s1 has written NaN: s2, on the same area, emitted null from its handler, s1
\* emitted only from its set trap and s3, on another area, did not emit
C25_Witness ==
    /\ last.op = "write" /\ last.obs = "s1" /\ last.val = NaN
    /\ \E n \in DOMAIN semits :
          semits[n].inst = "s2" /\ semits[n].via = "handler" /\ semits[n].val = Null
    /\ \A n \in DOMAIN semits : semits[n].inst = "s1" => semits[n].via = "proxy"
    /\ \A n \in DOMAIN semits : semits[n].inst # "s3"

\* the records of o that enqueue accepted in this step, in order
NewAccepted(o) ==
    LET fresh == SubSeq(enq', Len(enq) + 1, Len(enq'))
        mine == SelectSeq(fresh, LAMBDA e : e.obs = o /\ e.ok)
    IN [n \in DOMAIN mine |-> mine[n].change]

\* the change events the step dispatched on o straight from enqueue
NewSyncEvents(o) ==
    LET fresh == SubSeq(events', Len(events) + 1, Len(events'))
        mine == SelectSeq(fresh, LAMBDA e : e.target = o /\ e.via = "sync")
    IN [n \in DOMAIN mine |-> mine[n].changes]

\* the flushes queued and not yet begun while the step runs
PendingFlushes == IF phase = "drain" /\ tasks # <<>> THEN Tail(tasks) ELSE tasks

Scheduled(o, ts) == Cardinality({n \in DOMAIN ts : ts[n] = o})

\* the two sequences hold the same elements equally often
SameBag(xs, ys) ==
    \A x \in Range(xs) \cup Range(ys) :
        Cardinality({n \in DOMAIN xs : xs[n] = x}) = Cardinality({n \in DOMAIN ys : ys[n] = x})

\* C26: a synchronous instance dispatches, for every accepted enqueue, one
\* change event carrying that one record, and schedules no flush; a deferred
\* instance schedules a flush for an accepted enqueue only when none is
\* pending, and otherwise the record joins the pending batch (stated for the
\* turns Par began without a nested Observable)
C26_SyncEmitsDeferredBatches ==
    [][\A o \in DOMAIN queue :
          LET cs == NewAccepted(o)
          IN BeganPlain =>
             IF sync[o]
             THEN /\ SameBag(NewSyncEvents(o), [n \in DOMAIN cs |-> <<cs[n]>>])
                  /\ Scheduled(o, tasks') = 0
             ELSE cs # <<>> =>
                    /\ Scheduled(o, tasks') = 1
                    /\ queue'[o].items =
                          IF Scheduled(o, PendingFlushes) > 0
                          THEN queue[o].items \o cs
                          ELSE cs]_vars

\* the records of the given events, in order
RECURSIVE Flat(_)
Flat(es) == IF es = <<>> THEN <<>> ELSE Head(es).changes \o Flat(Tail(es))

\* the records the events that enqueue caused on o carried since the turn began
CarriedRecords(o) ==
    Flat(SelectSeq(events, LAMBDA e : e.target = o /\ e.via \in {"flush", "sync"}))

\* the records of o that enqueue accepted since the turn began
AcceptedRecords(o) ==
    LET mine == SelectSeq(enq, LAMBDA e : e.obs = o /\ e.ok)
    IN [n \in DOMAIN mine |-> mine[n].change]

\* C27: the change events of an instance carry exactly the records enqueue
\* accepted for that instance, none dropped, merged or added from another
\* instance, and the events of a deferred instance carry them in the order in
\* which they were enqueued (stated at the end of the drain, for the turns Par
\* began without a nested Observable)
C27_EventsCarryAcceptedRecords ==
    (Quiescent /\ BeganPlain) =>
        \A o \in DOMAIN queue :
            IF sync[o] THEN SameBag(CarriedRecords(o), AcceptedRecords(o))
            ELSE CarriedRecords(o) = AcceptedRecords(o)

\* a change handler of the nested Observable is registered under property p
Registered(p) ==
    /\ nested[p] # 0
    /\ \E l \in Range(listeners[Kid]) : l.id = nested[p] /\ l.kind = "adopt" /\ l.prop = p

\* C28: in every reachable state of a deep ObservableObject a change handler
\* for the nested Observable is registered under property p exactly when the
\* value stored under p is that Observable, whether it came with the
\* constructor's target or was assigned later
C28_HandlerIffStored ==
    \A p \in Props : Registered(p) <=> store[p] = Kid

\* the change events of the nested Observable itself since the turn began
OwnEvents == Indices(events, LAMBDA e : e.target = Kid /\ e.via \in {"flush", "sync"})

\* the nested Observable's event during whose dispatch the n-th change event
\* was dispatched, 0 for none
Cause(n) == Greatest({0} \cup {f \in OwnEvents : f < n})

\* the callbacks of the nested Observable's subscribers for its event f
NotifiedOf(f) ==
    {j \in DOMAIN calls : /\ calls[j].obs = Kid /\ calls[j].at = "event"
                          /\ Cause(calls[j].seen + 1) = f}

\* C29: a change bubbles to the parent's listeners only after the nested
\* Observable's own batch has flushed, and never before a subscriber of the
\* nested Observable has been notified of that batch
C29_BubbleAfterOwnSubscribers ==
    \A i \in Bubbles :
        /\ Cause(i) # 0
        /\ \A j \in NotifiedOf(Cause(i)) : calls[j].seen < i

\* the change events of the composition's sources since the turn began
SourceEvents == Indices(events, LAMBDA e : e.target \in Sources)

\* the recomputations since the turn began, by the event update emits
Recomputations == Indices(events, LAMBDA e : e.target = Cmp /\ e.via = "update")

\* C30: for a deferred composition the source change notifications of one
\* microtask window schedule at most one recomputation, and a source change
\* after that recomputation has run schedules a new one: a recomputation is
\* never queued twice, and one is queued after every step in which a source
\* dispatched a change event
C30_OneRecomputationPerWindow ==
    [][/\ Scheduled(UpdateTask, tasks') <= 1
       /\ (\E o \in Sources : NewEvents(o) # {}) => Scheduled(UpdateTask, tasks') = 1]_vars

\* two source notifications in one window, the recomputation, then a later
\* source notification with a new recomputation queued
C30_Witness ==
    /\ Scheduled(UpdateTask, tasks) = 1
    /\ \E i, j, l \in SourceEvents : \E k \in Recomputations :
          /\ i < j /\ j < k /\ k < l
          /\ \A r \in Recomputations : ~(i < r /\ r < j)

\* ---------------------------------------------------------------- C31

\* the step is the microtask that calls update()
UpdateCalled == phase = "drain" /\ tasks # <<>> /\ Head(tasks) = UpdateTask

\* the events update() itself dispatched in this step
UpdateEvents == {i \in NewEvents(Cmp) : events'[i].via = "update"}

\* C31: every call of update() dispatches one change event of its own that
\* carries the record {property: "value", from: the value before the call,
\* to: the recomputed value}, also when the two are the same value
C31_UpdateAlwaysEmits ==
    [][UpdateCalled =>
          /\ Cardinality(UpdateEvents) = 1
          /\ \A i \in UpdateEvents :
                events'[i].changes =
                    <<Change("value", cell[Cmp], Combine(cell[SrcA], cell[SrcB]))>>]_vars

\* update() has run after the construction and recomputed the value it held
C31_Witness ==
    /\ ~ConstructionTurn
    /\ \E i \in Recomputations :
          /\ Len(events[i].changes) = 1
          /\ events[i].changes[1].from = events[i].changes[1].to
          /\ events[i].changes[1].to = cell[Cmp]

\* ---------------------------------------------------------------- C32

\* c = compose(Func)(stateA, stateB) of the State module: two source States
StateA == "stateA"
StateB == "stateB"
States == {StateA, StateB}

\* the numbers the sources hold; 0 is the falsy one
Zero == "0"
StateVals == {Zero, "1"}
Numeral == <<"0", "1", "2">>

\* the composing function: (x, y) => x + y
Func(x, y) ==
    LET n(v) == CHOOSE i \in DOMAIN Numeral : Numeral[i] = v
    IN Numeral[n(x) + n(y) - 1]

\* the microtask scheduleUpdate queues
UpdateJob == "update"

\* what if (value) takes for false
IsFalsy(v) == v \in {Undefined, Zero} \/ Falsy(v)

\* the heap of the composed States
Composed ==
    [origin |-> origin, oqueue |-> oqueue, jobs |-> jobs, composite |-> composite,
     microtaskQueued |-> microtaskQueued]

\* new ChangeEvent([change]): the one element of changes is an array, and
\* {property, from, to} of an array are all undefined
Wrapped(change) == Change(Undefined, Undefined, Undefined)

\* event.final.get("value")
FinalValue(changes) ==
    LET final == Final(changes)
    IN IF "value" \in DOMAIN final THEN final["value"] ELSE Undefined

\* ComposedState.scheduleUpdate, the composition being made with synchronous: false
ComposedSchedule(h) ==
    [h EXCEPT !.jobs = IF h.microtaskQueued THEN @ ELSE Append(@, UpdateJob),
              !.microtaskQueued = TRUE]

\* the change listener the constructor adds to every source
SourceChanged(h, changes) ==
    IF IsFalsy(FinalValue(changes)) THEN h ELSE ComposedSchedule(h)

\* SimpleState.emit(property, from, to) on source o
SimpleEmit(h, o, from, to) ==
    LET change == Change("value", from, to)
    IN IF ~osync[o]
       THEN [h EXCEPT !.jobs = IF h.oqueue[o] = <<>> THEN Append(@, o) ELSE @,
                      !.oqueue[o] = Append(@, change)]
       ELSE SourceChanged(h, <<Wrapped(change)>>)

\* ComposedState.update (its change event has no listener here)
ComposedUpdate(h) ==
    [h EXCEPT !.composite = Func(h.origin[StateA], h.origin[StateB])]

CommitComposed(h) ==
    /\ origin' = h.origin
    /\ oqueue' = h.oqueue
    /\ jobs' = h.jobs
    /\ composite' = h.composite
    /\ microtaskQueued' = h.microtaskQueued

\* a = new State({value}), b = new State({value}), c = compose(Func)(a, b):
\* the constructor ends with this.update()
ComposedInit ==
    /\ NoComposition
    /\ NoElement
    /\ NoBare
    /\ NoRef
    /\ NoBind
    /\ NoForward
    /\ NoStored
    /\ NoAttribute
    /\ NoDom
    /\ errors = <<>>
    /\ sync = [o \in Obs |-> FALSE]
    /\ store = [p \in Props |-> "x"]
    /\ value = "x"
    /\ queue = [o \in Obs |-> NoQueue]
    /\ tasks = <<>>
    /\ listeners = [o \in Obs |-> <<>>]
    /\ nested = [p \in Props |-> 0]
    /\ phase = "turn"
    /\ budget = MaxOps
    /\ used = 0
    /\ last = NoOp
    /\ enq = <<>>
    /\ events = <<>>
    /\ calls = <<>>
    /\ start = Snapshot
    /\ origin \in [States -> StateVals]
    /\ osync \in [States -> BOOLEAN]
    /\ oqueue = [o \in States |-> <<>>]
    /\ jobs = <<>>
    /\ composite = Func(origin[StateA], origin[StateB])
    /\ microtaskQueued = FALSE
    /\ wrote = {}
    /\ unsubscribed = {}
    /\ NoComponent

\* o.values.value = v: the set trap of State emits when the value differs,
\* then stores it
WriteState(o, v) ==
    /\ CanAct
    /\ used' = used + 1
    /\ LET old == origin[o]
           h == IF old # v THEN SimpleEmit(Composed, o, old, v) ELSE Composed
       IN /\ CommitComposed([h EXCEPT !.origin[o] = v])
          /\ wrote' = IF old # v THEN wrote \cup {o} ELSE wrote
    /\ last' = Op("write", o, "value", v, "true")
    /\ UNCHANGED <<basics, unsubscribed, heap, phase, errors, osync>>

\* the microtask of emit: dispatch new ChangeEvent(...this.#queue), drop the queue
FlushState ==
    /\ phase = "drain"
    /\ jobs # <<>>
    /\ Head(jobs) \in States
    /\ LET o == Head(jobs)
           h == SourceChanged([Composed EXCEPT !.jobs = Tail(@)], oqueue[o])
       IN CommitComposed([h EXCEPT !.oqueue[o] = <<>>])
    /\ UNCHANGED <<basics, unsubscribed, engine, used, last, osync, wrote>>

\* the microtask of scheduleUpdate: () => { this.#microtaskQueued = false; this.update() }
RunComposedUpdate ==
    /\ phase = "drain"
    /\ jobs # <<>>
    /\ Head(jobs) = UpdateJob
    /\ CommitComposed(ComposedUpdate([Composed EXCEPT !.jobs = Tail(@),
                                                      !.microtaskQueued = FALSE]))
    /\ UNCHANGED <<basics, unsubscribed, engine, used, last, osync, wrote>>

\* the microtask queue is empty: the next turn begins
ComposedNextTurn ==
    /\ phase = "drain"
    /\ jobs = <<>>
    /\ phase' = "turn"
    /\ last' = NoOp
    /\ wrote' = {}
    /\ UNCHANGED <<basics, unsubscribed, heap, errors,
                   origin, osync, oqueue, jobs, composite, microtaskQueued, used>>

ComposedNext ==
    \/ \E o \in States, v \in StateVals : WriteState(o, v)
    \/ EndTurn
    \/ FlushState
    \/ RunComposedUpdate
    \/ ComposedNextTurn

ComposedSpec == ComposedInit /\ [][ComposedNext]_vars

\* C32: after a source of a composition has changed and all pending
\* microtasks have run, the composition's value is the composing function
\* applied to the current values of the sources, whatever the new value is
C32_CompositionConverges ==
    (phase = "drain" /\ jobs = <<>> /\ wrote # {}) =>
        composite = Func(origin[StateA], origin[StateB])

\* ---------------------------------------------------------------- C33

\* the callbacks a change event of a write reached: the event of a
\* synchronous enqueue or of a deferred flush
WriteCalls ==
    {i \in DOMAIN calls : /\ calls[i].at = "event"
                          /\ calls[i].seen \in DOMAIN events
                          /\ events[calls[i].seen].via \in {"sync", "flush"}}

\* C33: when the change event of a write is dispatched, a listener that
\* reads the Observable's value (value, values[p]) gets the new value of the
\* write, the one the event carries, in synchronous and in deferred mode
C33_ListenerReadsNewValue ==
    \A i \in WriteCalls : calls[i].read = calls[i].arg

\* ---------------------------------------------------------------- C34

\* the step is user code writing values[p], and enqueue accepted the write
WriteAccepted ==
    /\ UserStep
    /\ last'.op = "set"
    /\ last'.obs = Par
    /\ \E i \in DOMAIN enq' :
          /\ i > Len(enq)
          /\ enq'[i].obs = Par
          /\ enq'[i].ok
          /\ enq'[i].change = Change(last'.prop, store[last'.prop], last'.val)

\* C34: a property write that enqueue accepts is committed to the backing
\* store: the write is never aborted with the store left at the old value
\* once its change record has been queued or emitted, also when the old
\* value is an Observable that came with the constructor's target
C34_AcceptedWriteIsCommitted ==
    [][WriteAccepted =>
          ~(last'.res # "true" /\ store'[last'.prop] = store[last'.prop])]_vars

\* ---------------------------------------------------------------- C35

\* the subscribers an Observable can have at a time in this specification
MaxSubscribers == 2

Subscribers(o) == {l \in Range(listeners[o]) : l.kind = "subscriber"}

\* unsubscribe = v.subscribe(callback), once more: the id of the new listener
\* stands for the new callback from now on
SubscribeAgain ==
    /\ CanAct
    /\ Cardinality(Subscribers(Kid)) < MaxSubscribers
    /\ Commit(Subscribe(St, Kid, "value"))
    /\ unsubscribed' = unsubscribed \ {FreshId(St)}
    /\ last' = Op("subscribe", Kid, "value", Undefined, "true")
    /\ used' = used + 1
    /\ UNCHANGED <<basics, composing, sync, phase, budget, start, bareMade>>

AbortMut(s, id) == s

\* controller.abort(): the signal removes the listener added with it
Abort(s, id) == RemoveListener(s, Kid, "change", id)

\* unsubscribe()
Unsubscribe(id) ==
    /\ CanAct
    /\ \E l \in Subscribers(Kid) : l.id = id
    /\ Commit(Abort(St, id))
    /\ unsubscribed' = unsubscribed \cup {id}
    /\ last' = Op("unsubscribe", Kid, "value", Undefined, "true")
    /\ used' = used + 1
    /\ UNCHANGED <<basics, composing, sync, phase, budget, start, bareMade>>

\* one ObservableValue, its subscribers coming and going
SubInit ==
    /\ Constructed
    /\ store = [p \in Props |-> "x"]
    /\ sync[Par] = FALSE
    /\ budget = MaxWrites

SubNext ==
    \/ \E v \in Vals : SetValue(v)
    \/ SubscribeAgain
    \/ \E id \in 1..MaxSubscribers : Unsubscribe(id)
    \/ EndTurn
    \/ RunMicrotask
    \/ NextTurn

SubSpec == SubInit /\ [][SubNext]_vars

\* the callbacks made in this step
NewCalls == {j \in DOMAIN calls' : j > Len(calls)}

\* C35: once the function subscribe returned has been called, the callback
\* is not invoked again, not even for a batch that was enqueued before and
\* is flushed afterwards, and every other subscriber is still called with
\* the final value of each change event that has one
C35_UnsubscribedIsSilent ==
    [][/\ \A j \in NewCalls : calls'[j].at = "event" => calls'[j].id \notin unsubscribed
       /\ \A i \in NewEvents(Kid) : \A l \in Subscribers(Kid) :
             "value" \in DOMAIN Final(events'[i].changes) =>
                \E j \in NewCalls : /\ calls'[j].id = l.id
                                    /\ calls'[j].seen = i
                                    /\ calls'[j].arg = Final(events'[i].changes)["value"]]_vars

\* a batch enqueued before an unsubscribe call has been flushed after it and
\* has reached the remaining subscriber
C35_Witness ==
    /\ phase = "drain"
    /\ last.op = "unsubscribe"
    /\ unsubscribed # {}
    /\ Subscribers(Kid) # {}
    /\ \E i \in DOMAIN events, k \in DOMAIN enq :
          /\ events[i].via = "flush"
          /\ enq[k].ok
          /\ \E j \in DOMAIN calls : calls[j].at = "event" /\ calls[j].seen = i

\* ---------------------------------------------------------------- C36

\* the projection and its backend, user code adding pre-change listeners
\* that cancel
GuardedNext ==
    \/ \E v \in Vals : WriteThrough(v)
    \/ \E p \in Props, v \in Vals : SetProperty(p, v)
    \/ \E bad \in BadVals : AddValidator(Par, bad)
    \/ DoSubscribe(Proj, "value")
    \/ EndTurn
    \/ RunMicrotask
    \/ NextTurn

GuardedSpec == ProjInit /\ [][GuardedNext]_vars

\* the enqueue calls of this step on instance o
NewEnqueues(o) == {i \in DOMAIN enq' : i > Len(enq) /\ enq'[i].obs = o}

\* C36: the projection announces a change on itself only for a backend
\* write of its property that is accepted: when a pre-change listener
\* cancels the backend write, nothing is enqueued on the projection
C36_AnnouncesOnlyAcceptedWrites ==
    [][NewEnqueues(Proj) # {} =>
          \E i \in NewEnqueues(Par) : enq'[i].ok /\ enq'[i].change.property = ProjProp]_vars

\* ---------------------------------------------------------------- C37

\* C37: Ref's replacement map never holds a cycle: no element is recorded
\* as replaced by itself or by one of its predecessors, so following the
\* map from any replaced element ends
C37_RefMapIsAcyclic ==
    \A e \in DOMAIN newer : Follow(newer, e, {e}) # RangeError

\* ---------------------------------------------------------------- C38

\* the steps of one replacement of old by next, in the order of the claim
ReplaceSteps(old, next) ==
    <<[step |-> "beforereplace", node |-> old, other |-> next],
      [step |-> "replaceWith", node |-> old, other |-> next],
      [step |-> "Ref.replace", node |-> old, other |-> next],
      [step |-> "replaced", node |-> next, other |-> old],
      [step |-> "afterreplace", node |-> old, other |-> next],
      [step |-> "subscribe", node |-> next, other |-> next]>>

\* what handleChange did in this step
NewSteps == SubSeq(domlog', Len(domlog) + 1, Len(domlog'))

\* C38: when a reactive child is replaced, before-replace is dispatched on
\* the old element, the old element is replaced in the DOM, Ref records the
\* replacement, replaced is dispatched on the new element, after-replace on
\* the old one, and then the binding subscribes again with the new element
\* as its current one
C38_ReplacementOrder ==
    [][(\E k \in DOMAIN NewSteps : NewSteps[k].step = "replaceWith") =>
          /\ NewSteps = ReplaceSteps(ref, NewSteps[1].other)
          /\ ref' = NewSteps[1].other]_vars

\* ---------------------------------------------------------------- C39

\* html.button({click: ov}), ov holding a function: setReactiveAttribute
\* adds its change listener and sets the attribute once
FnAttrInit ==
    /\ NoComposition
    /\ NoElement
    /\ NoBare
    /\ NoRef
    /\ NoBind
    /\ NoForward
    /\ NoStored
    /\ NoFurther
    /\ NoDom
    /\ errors = <<>>
    /\ sync \in [{Kid} -> BOOLEAN]
    /\ store = [p \in Props |-> "x"]
    /\ value \in Functions
    /\ queue = [o \in {Kid} |-> NoQueue]
    /\ tasks = <<>>
    /\ listeners = [o \in {Kid} |-> <<AttrListener(1, "click")>>]
    /\ attr = Absent
    /\ attached = AddEventListener({}, value, 0)
    /\ signals = 0
    /\ nested = [p \in Props |-> 0]
    /\ phase = "turn"
    /\ budget = MaxWrites
    /\ used = 0
    /\ last = NoOp
    /\ enq = <<>>
    /\ events = <<>>
    /\ calls = <<>>
    /\ start = Snapshot

FnAttrNext ==
    \/ \E v \in Functions : SetValue(v)
    \/ EndTurn
    \/ RunMicrotask
    \/ NextTurn

FnAttrSpec == FnAttrInit /\ [][FnAttrNext]_vars

\* C39: after every change event of an observable bound to an event
\* attribute, one listener of the binding is attached to the element, and it
\* is the function the observable holds; the listeners for earlier values
\* are gone
C39_OneCurrentListener ==
    [][Len(events') > Len(events) =>
          /\ Cardinality(attached') = 1
          /\ \A h \in attached' : h.fn = value']_vars

\* ---------------------------------------------------------------- C40

\* the properties of the component's state, and the names of its attributes
StateProps == {"value", "fooBar"}
AttributeNames == {camelToKebab(p) : p \in StateProps}

\* what user code assigns to the state, and the texts it gives attributes
StateValues == {"x", Seven}
Texts == {"x", "7"}

\* the body of the loop over the mutation records
ObserveOne(s, name) ==
    IF String(s.store[kebabToCamel(name)]) # s.attributes[name]
    THEN SetTrap(s, kebabToCamel(name), s.attributes[name]).st
    ELSE s

\* the callback of attributeObserver
RECURSIVE Observe(_, _)
Observe(s, names) ==
    IF names = <<>> THEN s
    ELSE Observe(ObserveOne(s, Head(names)), Tail(names))

\* document.createElement of a component: the state is made from the
\* attributes present, its change listener is added, the element is observed
ComponentInit ==
    /\ NoComposition
    /\ NoElement
    /\ NoBare
    /\ NoRef
    /\ NoBind
    /\ NoForward
    /\ NoStored
    /\ NoComposed
    /\ unsubscribed = {}
    /\ NoDom
    /\ attr = Absent
    /\ attached = {}
    /\ signals = 0
    /\ errors = <<>>
    /\ sync = [o \in Obs |-> FALSE]
    /\ attributes \in [AttributeNames -> Texts \cup {Absent}]
    /\ mutations = <<>>
    /\ store = [p \in StateProps |->
                  IF attributes[camelToKebab(p)] = Absent THEN Undefined
                  ELSE attributes[camelToKebab(p)]]
    /\ value = "x"
    /\ queue = [o \in Obs |-> NoQueue]
    /\ tasks = <<>>
    /\ listeners = [o \in Obs |-> IF o = Par
                                   THEN <<Listener(1, "change", "reflect", Undefined, Undefined)>>
                                   ELSE <<>>]
    /\ nested = [p \in Props |-> 0]
    /\ phase = "turn"
    /\ budget = MaxOps
    /\ used = 0
    /\ last = NoOp
    /\ enq = <<>>
    /\ events = <<>>
    /\ calls = <<>>
    /\ start = Snapshot

\* element.setAttribute(name, text) by user code
WriteAttribute(name, text) ==
    /\ CanAct
    /\ Commit(DomSetAttribute(St, name, text))
    /\ last' = Op("setAttribute", Undefined, name, text, "true")
    /\ used' = used + 1
    /\ UNCHANGED <<outside, sync, phase, budget, start, bareMade>>

\* the observer's microtask: the records are taken and the callback runs
DeliverMutations ==
    /\ phase = "drain"
    /\ tasks # <<>>
    /\ Head(tasks) = ObserverTask
    /\ Commit(Observe([St EXCEPT !.tasks = Tail(@), !.mutations = <<>>], mutations))
    /\ UNCHANGED <<outside, sync, phase, budget, used, last, start, bareMade>>

ComponentNext ==
    \/ \E p \in StateProps, v \in StateValues : SetProperty(p, v)
    \/ \E name \in AttributeNames, text \in Texts : WriteAttribute(name, text)
    \/ EndTurn
    \/ RunMicrotask
    \/ DeliverMutations
    \/ NextTurn

ComponentSpec == ComponentInit /\ [][ComponentNext]_vars

\* the host runs microtasks as long as there are any: weak fairness of
\* RunMicrotask \/ DeliverMutations, whose steps are enabled exactly while a
\* microtask is queued in the drain phase
MicrotasksRun ==
    \/ []<>(~(phase = "drain" /\ tasks # <<>>))
    \/ []<><<RunMicrotask \/ DeliverMutations>>_vars

ComponentLive == ComponentSpec /\ MicrotasksRun

\* the attribute of every property written in the turn, and every attribute
\* there is, holds the text of the property's value
Reflected ==
    \A p \in StateProps :
       LET text == attributes[camelToKebab(p)]
           written == \E i \in DOMAIN enq : enq[i].obs = Par /\ enq[i].change.property = p
       IN (written \/ text # Absent) => text = String(store[p])

\* C40: the reflection between an attribute and its state property
\* converges: after the attribute writes and the state writes of a turn the
\* microtasks come to an end, no write of either side is pending then, and
\* the attribute is String(state value)
C40_ReflectionConverges ==
    /\ [](Quiescent => Reflected)
    /\ (phase = "drain") ~> Quiescent

\* a number was assigned to a property whose attribute was set in the same
\* turn; both sides have settled on the text of the attribute written last
C40_Witness ==
    /\ Quiescent
    /\ last.op = "setAttribute"
    /\ \E i \in DOMAIN enq : /\ enq[i].phase = "turn"
                              /\ enq[i].change.property = "fooBar"
                              /\ enq[i].change.to = Seven
    /\ \E i \in DOMAIN enq : enq[i].phase = "drain" /\ enq[i].change.property = "fooBar"
    /\ attributes["foo-bar"] = store["fooBar"]

====
